---------------------------- MODULE Spec2Model ----------------------------
(***************************************************************************)
(* A model of pystorcli2's command executor (pystorcli2/storcli.py): the   *)
(* StorCLI class with its response cache, its cache lock and the module    *)
(* level singleton switch, together with the error code table              *)
(* (pystorcli2/errors.py) and the response accessors (pystorcli2/common.py)*)
(* that StorCLI.run() and StorCLI.check_response_status() use.             *)
(*                                                                         *)
(* Values.  A decoded JSON object is a record whose fields are the keys    *)
(* that are present ("Command Status" is written CommandStatus, and so     *)
(* on), so that Python's  'k' in d  is  "k" \in DOMAIN d.  A stdout is     *)
(* either [json |-> doc], a text that json.loads decodes to doc, or        *)
(* [text |-> lines], a text that json.loads rejects; lines is the result   *)
(* of splitlines(), each line a sequence of fragments, a fragment being    *)
(* "=", a blank " " or a piece of text holding neither.  A member of the   *)
(* StorcliError enumeration is denoted by its name.  The result of a call  *)
(* is [kind |-> "return", value |-> v] or [kind |-> "raise", exc |-> e,    *)
(* ...].                                                                   *)
(***************************************************************************)
EXTENDS Integers, Sequences, FiniteSets, TLC

(***************************************************************************)
(* pystorcli2/errors.py: the members of StorcliError in definition order,  *)
(* each with its value tuple (code, short description, detailed            *)
(* description).                                                           *)
(***************************************************************************)
StorcliError ==
  <<
    [name |-> "SERROR_0", code |-> 0, short |-> "", detailed |-> "Command completed successfully."],
    [name |-> "SERROR_1", code |-> 1, short |-> "", detailed |-> "Invalid command."],
    [name |-> "SERROR_2", code |-> 2, short |-> "", detailed |-> "DCMD opcode is invalid."],
    [name |-> "SERROR_3", code |-> 3, short |-> "", detailed |-> "Input parameters are invalid."],
    [name |-> "SERROR_4", code |-> 4, short |-> "", detailed |-> "Invalid sequence number."],
    [name |-> "SERROR_5", code |-> 5, short |-> "", detailed |-> "Abort is not possible for the requested command."],
    [name |-> "SERROR_6", code |-> 6, short |-> "", detailed |-> "Application 'host' code not found."],
    [name |-> "SERROR_7", code |-> 7, short |-> "", detailed |-> "Application already in use - try later."],
    [name |-> "SERROR_8", code |-> 8, short |-> "", detailed |-> "Application not initialized."],
    [name |-> "SERROR_9", code |-> 9, short |-> "", detailed |-> "Given array index is invalid."],
    [name |-> "SERROR_10", code |-> 10, short |-> "", detailed |-> "Unable to add the missing drive to array, as row has no empty slots."],
    [name |-> "SERROR_11", code |-> 11, short |-> "", detailed |-> "Some of the CFG resources conflict with each other or the current config."],
    [name |-> "SERROR_12", code |-> 12, short |-> "", detailed |-> "Invalid device ID / select-timeout."],
    [name |-> "SERROR_13", code |-> 13, short |-> "", detailed |-> "Drive is too small for the requested operation."],
    [name |-> "SERROR_14", code |-> 14, short |-> "", detailed |-> "Flash memory allocation failed."],
    [name |-> "SERROR_15", code |-> 15, short |-> "", detailed |-> "Flash download already in progress."],
    [name |-> "SERROR_16", code |-> 16, short |-> "", detailed |-> "Flash operation failed."],
    [name |-> "SERROR_17", code |-> 17, short |-> "", detailed |-> "Flash image was bad."],
    [name |-> "SERROR_18", code |-> 18, short |-> "", detailed |-> "Downloaded flash image is incomplete."],
    [name |-> "SERROR_19", code |-> 19, short |-> "", detailed |-> "Flash OPEN was not done."],
    [name |-> "SERROR_20", code |-> 20, short |-> "", detailed |-> "Flash sequence is not active."],
    [name |-> "SERROR_21", code |-> 21, short |-> "", detailed |-> "Flush command failed."],
    [name |-> "SERROR_22", code |-> 22, short |-> "", detailed |-> "Specified application does not have host-resident code."],
    [name |-> "SERROR_23", code |-> 23, short |-> "", detailed |-> "LD operation not possible - CC is in progress."],
    [name |-> "SERROR_24", code |-> 24, short |-> "", detailed |-> "LD initialization in progress."],
    [name |-> "SERROR_25", code |-> 25, short |-> "", detailed |-> "LBA is out of range."],
    [name |-> "SERROR_26", code |-> 26, short |-> "", detailed |-> "Maximum LDs are already configured."],
    [name |-> "SERROR_27", code |-> 27, short |-> "", detailed |-> "LD is not OPTIMAL."],
    [name |-> "SERROR_28", code |-> 28, short |-> "", detailed |-> "LD Rebuild is in progress."],
    [name |-> "SERROR_29", code |-> 29, short |-> "", detailed |-> "LD is undergoing reconstruction."],
    [name |-> "SERROR_30", code |-> 30, short |-> "", detailed |-> "LD RAID level is wrong for the requested operation."],
    [name |-> "SERROR_31", code |-> 31, short |-> "", detailed |-> "Too many spares assigned."],
    [name |-> "SERROR_32", code |-> 32, short |-> "", detailed |-> "Scratch memory not available, try the command again later."],
    [name |-> "SERROR_33", code |-> 33, short |-> "", detailed |-> "Error writing MFC data to SEEPROM."],
    [name |-> "SERROR_34", code |-> 34, short |-> "", detailed |-> "Required HW is missing (for example, Alarm or BBU)."],
    [name |-> "SERROR_35", code |-> 35, short |-> "", detailed |-> "Item not found."],
    [name |-> "SERROR_36", code |-> 36, short |-> "", detailed |-> "LD drives are not within an enclosure."],
    [name |-> "SERROR_37", code |-> 37, short |-> "", detailed |-> "PD CLEAR operation is in progress."],
    [name |-> "SERROR_38", code |-> 38, short |-> "", detailed |-> "Unable to use SATA(SAS) drive to replace SAS(SATA)."],
    [name |-> "SERROR_39", code |-> 39, short |-> "", detailed |-> "Patrol Read is disabled."],
    [name |-> "SERROR_40", code |-> 40, short |-> "", detailed |-> "Given row index is invalid."],
    [name |-> "SERROR_45", code |-> 45, short |-> "", detailed |-> "SCSI command done, but non-GOOD status was received-see mf.hdr.extStatus for SCSI_STATUS."],
    [name |-> "SERROR_46", code |-> 46, short |-> "", detailed |-> "IO request for MFI_CMD_OP_PD_SCSI failed - see extStatus for DM error."],
    [name |-> "SERROR_47", code |-> 47, short |-> "", detailed |-> "Matches SCSI RESERVATION_CONFLICT."],
    [name |-> "SERROR_48", code |-> 48, short |-> "", detailed |-> "One or more of the flush operations failed."],
    [name |-> "SERROR_49", code |-> 49, short |-> "", detailed |-> "Firmware real-time currently not set."],
    [name |-> "SERROR_50", code |-> 50, short |-> "", detailed |-> "Command issues while firmware is in the wrong state (for example, GET RECON when op not active)."],
    [name |-> "SERROR_51", code |-> 51, short |-> "", detailed |-> "LD is not OFFLINE - IO not possible."],
    [name |-> "SERROR_52", code |-> 52, short |-> "", detailed |-> "Peer controller rejected request (possibly due to a resource conflict)."],
    [name |-> "SERROR_53", code |-> 53, short |-> "", detailed |-> "Unable to inform peer of communication changes (retry might be appropriate)."],
    [name |-> "SERROR_54", code |-> 54, short |-> "", detailed |-> "LD reservation already in progress."],
    [name |-> "SERROR_55", code |-> 55, short |-> "", detailed |-> "I2C errors were detected."],
    [name |-> "SERROR_56", code |-> 56, short |-> "", detailed |-> "PCI errors occurred during XOR/DMA operation."],
    [name |-> "SERROR_57", code |-> 57, short |-> "", detailed |-> "Diagnostics failed, see the event log for details."],
    [name |-> "SERROR_58", code |-> 58, short |-> "", detailed |-> "Unable to process command as boot messages are pending."],
    [name |-> "INCOMPLETE_FOREIGN_CONFIGURATION", code |-> 59, short |-> "Incomplete foreign configuration", detailed |-> "Returned in case if foreign configurations are incomplete."],
    [name |-> "SERROR_61", code |-> 61, short |-> "", detailed |-> "Returned when a command is tried on unsupported hardware."],
    [name |-> "SERROR_62", code |-> 62, short |-> "", detailed |-> "CC scheduling is disabled."],
    [name |-> "SERROR_63", code |-> 63, short |-> "", detailed |-> "PD CopyBack operation is in progress."],
    [name |-> "SERROR_64", code |-> 64, short |-> "", detailed |-> "Selected more than one PD per array."],
    [name |-> "SERROR_65", code |-> 65, short |-> "", detailed |-> "Microcode update operation failed."],
    [name |-> "SERROR_66", code |-> 66, short |-> "", detailed |-> "Unable to process the command as the drive security feature is not enabled."],
    [name |-> "SERROR_67", code |-> 67, short |-> "", detailed |-> "Controller already has a lock key."],
    [name |-> "SERROR_68", code |-> 68, short |-> "", detailed |-> "Lock key cannot be backed-up."],
    [name |-> "SERROR_69", code |-> 69, short |-> "", detailed |-> "Lock key backup cannot be verified."],
    [name |-> "SERROR_70", code |-> 70, short |-> "", detailed |-> "Lock key from backup failed verification."],
    [name |-> "SERROR_71", code |-> 71, short |-> "", detailed |-> "Rekey operation not allowed, unless controller already has a lock key."],
    [name |-> "SERROR_72", code |-> 72, short |-> "", detailed |-> "Lock key is not valid, cannot authenticate."],
    [name |-> "SERROR_73", code |-> 73, short |-> "", detailed |-> "Lock key from escrow cannot be used."],
    [name |-> "SERROR_74", code |-> 74, short |-> "", detailed |-> "Lock key backup (pass-phrase) is required."],
    [name |-> "SERROR_75", code |-> 75, short |-> "", detailed |-> "Secure LD exists."],
    [name |-> "SERROR_76", code |-> 76, short |-> "", detailed |-> "LD secure operation is not allowed."],
    [name |-> "SERROR_77", code |-> 77, short |-> "", detailed |-> "Reprovisioning is not allowed."],
    [name |-> "SERROR_78", code |-> 78, short |-> "", detailed |-> "Drive security type (FDE or non-FDE) is not appropriate for the requested operation."],
    [name |-> "SERROR_79", code |-> 79, short |-> "", detailed |-> "LD encryption type is not supported."],
    [name |-> "SERROR_80", code |-> 80, short |-> "", detailed |-> "Cannot mix FDE and non-FDE drives in same array."],
    [name |-> "SERROR_81", code |-> 81, short |-> "", detailed |-> "Cannot mix secure and unsecured LD in same array."],
    [name |-> "SERROR_82", code |-> 82, short |-> "", detailed |-> "Secret key not allowed."],
    [name |-> "SERROR_83", code |-> 83, short |-> "", detailed |-> "Physical device errors were detected."],
    [name |-> "SERROR_84", code |-> 84, short |-> "", detailed |-> "Controller has LD cache pinned."],
    [name |-> "SERROR_85", code |-> 85, short |-> "", detailed |-> "Requested operation is already in progress."],
    [name |-> "SERROR_86", code |-> 86, short |-> "", detailed |-> "Another power state set operation is in progress."],
    [name |-> "SERROR_87", code |-> 87, short |-> "", detailed |-> "Power state of device is not correct."],
    [name |-> "SERROR_88", code |-> 88, short |-> "", detailed |-> "No PD is available for patrol read."],
    [name |-> "SERROR_89", code |-> 89, short |-> "", detailed |-> "Controller reset is required."],
    [name |-> "SERROR_90", code |-> 90, short |-> "", detailed |-> "No EKM boot agent detected."],
    [name |-> "SERROR_91", code |-> 91, short |-> "", detailed |-> "No space on the snapshot repository VD."],
    [name |-> "SERROR_92", code |-> 92, short |-> "", detailed |-> "For consistency SET PiTs, some PiT creations might fail and some succeed."],
    [name |-> "SERROR_93", code |-> 93, short |-> "", detailed |-> "Secondary iButton cannot be used and is incompatible with controller."],
    [name |-> "SERROR_94", code |-> 94, short |-> "", detailed |-> "PFK does not match or cannot be applied to the controller."],
    [name |-> "SERROR_95", code |-> 95, short |-> "", detailed |-> "Maximum allowed unconfigured (configurable) PDs exist."],
    [name |-> "SERROR_96", code |-> 96, short |-> "", detailed |-> "IO metrics are not being collected."],
    [name |-> "SERROR_97", code |-> 97, short |-> "", detailed |-> "AEC capture must be stopped before proceeding."],
    [name |-> "SERROR_98", code |-> 98, short |-> "", detailed |-> "Unsupported level of protection information."],
    [name |-> "SERROR_99", code |-> 99, short |-> "", detailed |-> "PDs in LD have incompatible EEDP types."],
    [name |-> "SERROR_100", code |-> 100, short |-> "", detailed |-> "Request cannot be completed because protection information is not enabled."],
    [name |-> "SERROR_101", code |-> 101, short |-> "", detailed |-> "PDs in LD have different block sizes."],
    [name |-> "SERROR_102", code |-> 102, short |-> "", detailed |-> "LD Cached data is present on a (this) SSCD."],
    [name |-> "SERROR_103", code |-> 103, short |-> "", detailed |-> "Config sequence number mismatch."],
    [name |-> "SERROR_104", code |-> 104, short |-> "", detailed |-> "Flash image is not supported."],
    [name |-> "SERROR_105", code |-> 105, short |-> "", detailed |-> "Controller cannot be online-reset."],
    [name |-> "SERROR_106", code |-> 106, short |-> "", detailed |-> "Controller booted to safe mode, command is not supported in this mode."],
    [name |-> "SERROR_107", code |-> 107, short |-> "", detailed |-> "SSC memory is unavailable to complete the operation."],
    [name |-> "SERROR_108", code |-> 108, short |-> "", detailed |-> "Peer node is incompatible."],
    [name |-> "SERROR_109", code |-> 109, short |-> "", detailed |-> "Dedicated hot spare assignment is limited to array(s) with same LDs."],
    [name |-> "SERROR_110", code |-> 110, short |-> "", detailed |-> "Signed component is not part of the image."],
    [name |-> "SERROR_111", code |-> 111, short |-> "", detailed |-> "Authentication failure of the signed firmware image."],
    [name |-> "SERROR_112", code |-> 112, short |-> "", detailed |-> "Flashing was ok but FW restart is not required, ex: No change in FW from current."],
    [name |-> "SERROR_113", code |-> 113, short |-> "", detailed |-> "Firmware is in some form of restricted mode, example: passive in A/P HA mode."],
    [name |-> "SERROR_114", code |-> 114, short |-> "", detailed |-> "The maximum number of entries are exceeded."],
    [name |-> "SERROR_115", code |-> 115, short |-> "", detailed |-> "Cannot start the subsequent flush because the previous flush is still active."],
    [name |-> "SERROR_116", code |-> 116, short |-> "", detailed |-> "Status is ok but a reboot is need for the change to take effect."],
    [name |-> "SERROR_117", code |-> 117, short |-> "", detailed |-> "Cannot perform the operation because the background operation is still in progress."],
    [name |-> "SERROR_118", code |-> 118, short |-> "", detailed |-> "Operation is not possible."],
    [name |-> "SERROR_119", code |-> 119, short |-> "", detailed |-> "Firmware update on the peer node is in progress."],
    [name |-> "SERROR_120", code |-> 120, short |-> "", detailed |-> "Hidden policy is not set for all of the virtual drives in the drive group that contains this virtual drive."],
    [name |-> "SERROR_121", code |-> 121, short |-> "", detailed |-> "Indicates that there are one or more secure system drives in the system."],
    [name |-> "SERROR_122", code |-> 122, short |-> "", detailed |-> "Boot LD cannot be hidden."],
    [name |-> "SERROR_123", code |-> 123, short |-> "", detailed |-> "The LD count is greater than the maximum transportable LD count."],
    [name |-> "SERROR_124", code |-> 124, short |-> "", detailed |-> "DHSP is associated with more than one disk group. Force is needed if dcmd.mbox.b[5] is 0."],
    [name |-> "SERROR_125", code |-> 125, short |-> "", detailed |-> "The operation not possible because the configuration has some LDs in a transport ready state."],
    [name |-> "SERROR_126", code |-> 126, short |-> "", detailed |-> "The IO request encountered a SCSI DATA UNDERRUN, MFI_HDR.length. The length is set to bytes transferred."],
    [name |-> "SERROR_127", code |-> 127, short |-> "", detailed |-> "Firmware flash is not allowed in the current mode."],
    [name |-> "SERROR_128", code |-> 128, short |-> "", detailed |-> "The operation is not possible because the device is in a transport ready state."],
    [name |-> "SERROR_129", code |-> 129, short |-> "", detailed |-> "The operation is not possible because the LD is in a transport ready state."],
    [name |-> "SERROR_130", code |-> 130, short |-> "", detailed |-> "The operation is not possible because the LD is not in a transport ready state."],
    [name |-> "SERROR_131", code |-> 131, short |-> "", detailed |-> "The operation is not possible because the PD in a removal ready state."],
    [name |-> "SERROR_132", code |-> 132, short |-> "", detailed |-> "The status is ok, but a host reboot is required for the changes to take effect."],
    [name |-> "SERROR_133", code |-> 133, short |-> "", detailed |-> "A microcode update is pending on the device."],
    [name |-> "SERROR_134", code |-> 134, short |-> "", detailed |-> "A microcode update is in progress on the device."],
    [name |-> "SERROR_135", code |-> 135, short |-> "", detailed |-> "There is a mismatch between the drive type and the erase option."],
    [name |-> "SERROR_136", code |-> 136, short |-> "", detailed |-> "The operation is not possible because an automatically created configuration exists."],
    [name |-> "SERROR_137", code |-> 137, short |-> "", detailed |-> "A secure EPD or EPD-PASSTHRU device exists."],
    [name |-> "SERROR_138", code |-> 138, short |-> "", detailed |-> "The operation is not possible because the host FRU data is invalid."],
    [name |-> "SERROR_139", code |-> 139, short |-> "", detailed |-> "The operation is not possible because the controller FRU data is invalid."],
    [name |-> "SERROR_140", code |-> 140, short |-> "", detailed |-> "The requested image not found."],
    [name |-> "SERROR_141", code |-> 141, short |-> "", detailed |-> "NVCache related error."],
    [name |-> "SERROR_142", code |-> 142, short |-> "", detailed |-> "The requested LD size is less than MINIMUM SIZE LIMIT."],
    [name |-> "SERROR_143", code |-> 143, short |-> "", detailed |-> "The requested drive count is invalid for this raid level."],
    [name |-> "SERROR_144", code |-> 144, short |-> "", detailed |-> "An OEM-specific backplane authentication failure."],
    [name |-> "SERROR_145", code |-> 145, short |-> "", detailed |-> "The OEM-specific backplane not found."],
    [name |-> "SERROR_146", code |-> 146, short |-> "", detailed |-> "Flashing the image is not possible because the downloaded and running firmware on the controller are same."],
    [name |-> "SERROR_147", code |-> 147, short |-> "", detailed |-> "Unmap is not supported on the device or the controller."],
    [name |-> "SERROR_148", code |-> 148, short |-> "", detailed |-> "The device does not support the sanitize type that is specified."],
    [name |-> "SERROR_149", code |-> 149, short |-> "", detailed |-> "A valid Snapdump is unavailable."],
    [name |-> "SERROR_150", code |-> 150, short |-> "", detailed |-> "The Snapdump feature is not enabled."],
    [name |-> "SERROR_151", code |-> 151, short |-> "", detailed |-> "The LD or device does not support the requested policy."],
    [name |-> "SERROR_152", code |-> 152, short |-> "", detailed |-> "The requested operation cannot be performed because of an existing configuration."],
    [name |-> "SERROR_153", code |-> 153, short |-> "", detailed |-> "The status is ok, but a shutdown is required to take effect."],
    [name |-> "SERROR_154", code |-> 154, short |-> "", detailed |-> "The PD cannot participate in a RAID configuration."],
    [name |-> "SERROR_155", code |-> 155, short |-> "", detailed |-> "Secure boot needs another key slot and the eFUSE is full."],
    [name |-> "SERROR_156", code |-> 156, short |-> "", detailed |-> "Clear Snapdump before proceeding."],
    [name |-> "SERROR_157", code |-> 157, short |-> "", detailed |-> "The operation is not possible because one or more non unmap drives are used."],
    [name |-> "SERROR_158", code |-> 158, short |-> "", detailed |-> "The firmware image will disable the firmware device re-ordering."],
    [name |-> "SERROR_159", code |-> 159, short |-> "", detailed |-> "New firmware download is not allowed due to a Secure Boot pending key change."],
    [name |-> "SERROR_160", code |-> 160, short |-> "", detailed |-> "DPM only supports in EXT format."],
    [name |-> "SERROR_161", code |-> 161, short |-> "", detailed |-> "The NVMe repair command failed."],
    [name |-> "SERROR_162", code |-> 162, short |-> "", detailed |-> "The NVMe repair command is already in progress for this device."],
    [name |-> "SERROR_163", code |-> 163, short |-> "", detailed |-> "The NVMe repair status displays there is no repair in progress for this device."],
    [name |-> "SERROR_164", code |-> 164, short |-> "", detailed |-> "The imported certificate chain failed the firmware validation."],
    [name |-> "SERROR_165", code |-> 165, short |-> "", detailed |-> "The contents of the specified slot cannot be altered."],
    [name |-> "SERROR_166", code |-> 166, short |-> "", detailed |-> "The import initiated without an export or another import in process."],
    [name |-> "SERROR_167", code |-> 167, short |-> "", detailed |-> "Another export operation is in process."],
    [name |-> "SERROR_168", code |-> 168, short |-> "", detailed |-> "The configuration page read command failed."],
    [name |-> "SERROR_169", code |-> 169, short |-> "", detailed |-> "Failed to authenticate due to an invalid key pair or certificate."],
    [name |-> "SERROR_170", code |-> 170, short |-> "", detailed |-> "The certificate page read succeeded, but this page is not yet present in MPB."],
    [name |-> "SERROR_171", code |-> 171, short |-> "", detailed |-> "Lock key passphrase is incorrect, the user may retry."],
    [name |-> "SERROR_172", code |-> 172, short |-> "", detailed |-> "Lock key passphrase try count is exceeded, a reboot is required."],
    [name |-> "SERROR_173", code |-> 173, short |-> "", detailed |-> "The requested operation is not possible because of an active reconstruction."],
    [name |-> "SERROR_174", code |-> 174, short |-> "", detailed |-> "The requested operation is not possible as the firmware activation is pending."],
    [name |-> "SERROR_175", code |-> 175, short |-> "", detailed |-> "The requested operation is not possible as the PD Sanitize operation is in progress."],
    [name |-> "INVALID_STATUS", code |-> 255, short |-> "", detailed |-> "Invalid status - used for polling command completion."]
  >>

\* StorcliError.INVALID_STATUS, the member returned for an unknown input.
INVALID_STATUS == "INVALID_STATUS"

\* StorcliError.INCOMPLETE_FOREIGN_CONFIGURATION (code 59).
INCOMPLETE_FOREIGN_CONFIGURATION == "INCOMPLETE_FOREIGN_CONFIGURATION"

\* StorcliError.value of the member at position i.
value(i) == StorcliError[i].code

\* StorcliError.detailed_description of the member at position i.
detailed_description(i) == StorcliError[i].detailed

\* StorcliError.description: the short text, or the detailed one when the
\* short text is empty.
description(i) ==
  IF Len(StorcliError[i].short) = 0 THEN detailed_description(i)
  ELSE StorcliError[i].short

\* The comparison as it would be without its third clause.
MatchesCodeOrDescription(i, v) ==
  IF "int" \in DOMAIN v THEN value(i) = v.int
  ELSE description(i) = v.str

\* The comparison of get()'s loop.  The argument is an int ([int |-> n]) or
\* a str ([str |-> s]); an int never equals a description and a str never
\* equals a code.
Matches(i, v) ==
  IF "int" \in DOMAIN v THEN value(i) = v.int
  ELSE description(i) = v.str \/ detailed_description(i) = v.str

\* StorcliError.get: the first member, in definition order, whose code or
\* one of whose descriptions equals the argument; INVALID_STATUS if none.
get(v) ==
  LET hits == {i \in 1..Len(StorcliError) : Matches(i, v)}
  IN  IF hits = {} THEN INVALID_STATUS
      ELSE StorcliError[CHOOSE i \in hits : \A j \in hits : i <= j].name

(***************************************************************************)
(* Results of a call.                                                      *)
(***************************************************************************)
Return(v) == [kind |-> "return", value |-> v]

Raise(e) == [kind |-> "raise"] @@ e

\* exc.StorCliCmdErrorCode(cmd, error_code); the command line is left out.
StorCliCmdErrorCode(code) ==
  Raise([exc |-> "StorCliCmdErrorCode", error_code |-> code])

(***************************************************************************)
(* pystorcli2/common.py                                                    *)
(***************************************************************************)
\* response_cmd: data['Controllers'][0]['Command Status'].
response_cmd(data) ==
  IF "Controllers" \notin DOMAIN data
  THEN Raise([exc |-> "KeyError", key |-> "Controllers"])
  ELSE IF Len(data.Controllers) = 0
  THEN Raise([exc |-> "IndexError"])
  ELSE IF "CommandStatus" \notin DOMAIN data.Controllers[1]
  THEN Raise([exc |-> "KeyError", key |-> "Command Status"])
  ELSE Return(data.Controllers[1].CommandStatus)

\* response_data: data['Controllers'][0]['Response Data'].
response_data(data) ==
  IF "Controllers" \notin DOMAIN data
  THEN Raise([exc |-> "KeyError", key |-> "Controllers"])
  ELSE IF Len(data.Controllers) = 0
  THEN Raise([exc |-> "IndexError"])
  ELSE IF "ResponseData" \notin DOMAIN data.Controllers[1]
  THEN Raise([exc |-> "KeyError", key |-> "Response Data"])
  ELSE Return(data.Controllers[1].ResponseData)

(***************************************************************************)
(* StorCLI.check_response_status (storcli.py 131-183).                     *)
(***************************************************************************)
\* The loop over cmd_status['Detailed Status'] from entry i on, with the
\* loop's two flags, and the test that follows the loop.
\* The loop as it would be if it took no notice of allow_error_codes.
DetailedStatusLoopStrict(detailed, i, allow_error_codes, allowed_errors, retcode) ==
  IF i > Len(detailed) THEN Return(retcode)
  ELSE IF "ErrCd" \in DOMAIN detailed[i]
  THEN StorCliCmdErrorCode(get([int |-> detailed[i].ErrCd]))
  ELSE Raise([exc |-> "KeyError", key |-> "ErrCd"])

RECURSIVE DetailedStatusLoop(_, _, _, _, _)
DetailedStatusLoop(detailed, i, allow_error_codes, allowed_errors, retcode) ==
  IF i > Len(detailed)
  THEN IF ~allowed_errors
       THEN Raise([exc |-> "StorCliCmdError", detailed |-> detailed])
       ELSE Return(retcode)
  ELSE LET error == detailed[i]
           allowed ==
             IF "ErrCd" \in DOMAIN error
             THEN IF get([int |-> error.ErrCd]) \notin allow_error_codes
                  THEN FALSE ELSE allowed_errors
             ELSE FALSE
       IN  IF ~allowed
           THEN IF "ErrCd" \in DOMAIN error
                THEN StorCliCmdErrorCode(get([int |-> error.ErrCd]))
                ELSE Raise([exc |-> "KeyError", key |-> "ErrCd"])
           ELSE DetailedStatusLoop(detailed, i + 1, allow_error_codes,
                                   allowed, FALSE)

\* The branch as it would be without the test against INVALID_STATUS.
DescriptionBranchWithoutSentinelTest(cmd_status, allow_error_codes) ==
  LET error_code == get([str |-> cmd_status.Description])
  IN  IF "Description" \in DOMAIN cmd_status
      THEN IF error_code \notin allow_error_codes
           THEN StorCliCmdErrorCode(error_code)
           ELSE Return(FALSE)
      ELSE Raise([exc |-> "StorCliCmdError", status |-> cmd_status])

\* The branch taken when Status is Failure and there is no Detailed Status.
DescriptionBranch(cmd_status, allow_error_codes) ==
  LET error_code == get([str |-> cmd_status.Description])
  IN  IF "Description" \in DOMAIN cmd_status /\ error_code # INVALID_STATUS
      THEN IF error_code \notin allow_error_codes
           THEN StorCliCmdErrorCode(error_code)
           ELSE Return(FALSE)
      ELSE Raise([exc |-> "StorCliCmdError", status |-> cmd_status])

check_response_status(out, allow_error_codes) ==
  LET r == response_cmd(out)
  IN  IF r.kind = "raise" THEN r
      ELSE LET cmd_status == r.value
           IN  IF "Status" \notin DOMAIN cmd_status
               THEN Raise([exc |-> "KeyError", key |-> "Status"])
               ELSE IF cmd_status.Status = "Failure"
               THEN IF "DetailedStatus" \in DOMAIN cmd_status
                    THEN DetailedStatusLoop(cmd_status.DetailedStatus, 1,
                                            allow_error_codes, TRUE, TRUE)
                    ELSE DescriptionBranch(cmd_status, allow_error_codes)
               ELSE Return(TRUE)

(***************************************************************************)
(* The legacy handler of StorCLI.run (storcli.py 230-247), entered when    *)
(* json.loads raises JSONDecodeError.                                      *)
(***************************************************************************)
\* The text as one sequence of fragments, the lines joined by "\n".
RECURSIVE Flat(_)
Flat(lines) ==
  IF Len(lines) = 0 THEN << >>
  ELSE IF Len(lines) = 1 THEN lines[1]
  ELSE lines[1] \o <<"\n">> \o Flat(Tail(lines))

\* re.search('(^.*)Storage.*Command.*$', stdout, MULTILINE | DOTALL): the
\* positions of a "Storage" that a "Command" follows.  The greedy group 1
\* ends before the last of them.
BannerStarts(flat) ==
  {p \in 1..Len(flat) :
     flat[p] = "Storage" /\ \E q \in (p + 1)..Len(flat) : flat[q] = "Command"}

BannerPrefix(flat) ==
  LET p == CHOOSE p \in BannerStarts(flat) :
             \A q \in BannerStarts(flat) : q <= p
  IN  SubSeq(flat, 1, p - 1)

\* str.strip() of a sequence of fragments.
RECURSIVE strip(_)
strip(s) ==
  IF Len(s) = 0 THEN s
  ELSE IF Head(s) \in {" ", "\n"} THEN strip(Tail(s))
  ELSE IF s[Len(s)] \in {" ", "\n"} THEN strip(SubSeq(s, 1, Len(s) - 1))
  ELSE s

\* ''.join of a sequence of strings.
RECURSIVE join(_)
join(s) == IF Len(s) = 0 THEN "" ELSE Head(s) \o join(Tail(s))

\* line.split('=', 1): the parts before and after the first "=".
FirstEq(line) ==
  CHOOSE i \in 1..Len(line) :
    line[i] = "=" /\ \A j \in 1..(i - 1) : line[j] # "="

SplitKey(line) == join(strip(SubSeq(line, 1, FirstEq(line) - 1)))

SplitValue(line) == join(strip(SubSeq(line, FirstEq(line) + 1, Len(line))))

\* The loop as it would be if it kept the first line of a key.
ParseLinesKeepingFirst(lines) ==
  LET idx  == {i \in 1..Len(lines) : \E j \in 1..Len(lines[i]) : lines[i][j] = "="}
      first(k) == CHOOSE i \in idx :
                    /\ SplitKey(lines[i]) = k
                    /\ \A j \in idx : SplitKey(lines[j]) = k => i <= j
  IN  [k \in {SplitKey(lines[i]) : i \in idx} |-> SplitValue(lines[first(k)])]

\* The dictionary built by the loop over stdout.splitlines(): a later line
\* overrides an earlier one with the same key.
ParseLines(lines) ==
  LET idx  == {i \in 1..Len(lines) : \E j \in 1..Len(lines[i]) : lines[i][j] = "="}
      last(k) == CHOOSE i \in idx :
                   /\ SplitKey(lines[i]) = k
                   /\ \A j \in idx : SplitKey(lines[j]) = k => j <= i
  IN  [k \in {SplitKey(lines[i]) : i \in idx} |-> SplitValue(lines[last(k)])]

\* The handler as it would be if it returned parsed without looking for a
\* Status key.
LegacyHandlerReturningAny(lines) ==
  IF BannerStarts(Flat(lines)) # {}
  THEN Raise([exc |-> "StorCliCmdError", prefix |-> BannerPrefix(Flat(lines))])
  ELSE Return(ParseLines(lines))

LegacyHandler(lines) ==
  IF BannerStarts(Flat(lines)) # {}
  THEN Raise([exc |-> "StorCliCmdError", prefix |-> BannerPrefix(Flat(lines))])
  ELSE LET parsed == ParseLines(lines)
       IN  IF "Status" \in DOMAIN parsed THEN Return(parsed)
           ELSE Raise([exc |-> "StorCliCmdError", err |-> "JSONDecodeError"])

(***************************************************************************)
(* The body of StorCLI.run under the lock (storcli.py 217-252), as a       *)
(* function of what the runner gave: ret is [stdout, returncode], or       *)
(* [raises |-> e] when the runner raised e.  The result says what run()    *)
(* returns or raises and whether it stored the response in the cache.      *)
(***************************************************************************)
\* run() as it would be if it returned response_data(ret_json).
RunBodyReturningData(ret, allow_error_codes, cache_enable) ==
  IF "raises" \in DOMAIN ret
  THEN [outcome |->
          IF ret.raises = "TimeoutExpired"
          THEN Raise([exc |-> "StorCliRunTimeout"])
          ELSE IF ret.raises \in {"SubprocessError", "CalledProcessError"}
          THEN Raise([exc |-> "StorCliRunTimeError"])
          ELSE Raise([exc |-> ret.raises]),
        store |-> FALSE]
  ELSE IF "json" \in DOMAIN ret.stdout
  THEN LET ret_json == ret.stdout.json
           status   == check_response_status(ret_json, allow_error_codes)
       IN  IF status.kind = "raise"
           THEN [outcome |-> status, store |-> FALSE]
           ELSE IF ret.returncode # 0
           THEN [outcome |-> Raise([exc |-> "StorCliRunTimeError",
                                    retcode |-> ret.returncode]),
                 store |-> FALSE]
           ELSE [outcome |-> response_data(ret_json), store |-> cache_enable]
  ELSE [outcome |-> LegacyHandler(ret.stdout.text), store |-> FALSE]

RunBody(ret, allow_error_codes, cache_enable) ==
  IF "raises" \in DOMAIN ret
  THEN [outcome |->
          IF ret.raises = "TimeoutExpired"
          THEN Raise([exc |-> "StorCliRunTimeout"])
          ELSE IF ret.raises \in {"SubprocessError", "CalledProcessError"}
          THEN Raise([exc |-> "StorCliRunTimeError"])
          ELSE Raise([exc |-> ret.raises]),
        store |-> FALSE]
  ELSE IF "json" \in DOMAIN ret.stdout
  THEN LET ret_json == ret.stdout.json
           status   == check_response_status(ret_json, allow_error_codes)
       IN  IF status.kind = "raise"
           THEN [outcome |-> status, store |-> FALSE]
           ELSE IF ret.returncode # 0
           THEN [outcome |-> Raise([exc |-> "StorCliRunTimeError",
                                    retcode |-> ret.returncode]),
                 store |-> FALSE]
           ELSE [outcome |-> Return(ret_json), store |-> cache_enable]
  ELSE [outcome |-> LegacyHandler(ret.stdout.text), store |-> FALSE]


(***************************************************************************)
(* pystorcli2/cmdRunner.py and the test double tests/storclifile.py.       *)
(***************************************************************************)
\* CMDRunner.run(args, **kwargs) (cmdRunner.py 27-34), for a process proc
\* that ends after proc.seconds with (stdout, returncode), or that the
\* system refuses to start ([oserror |-> e]).  timeout is the keyword
\* argument of that name (0 when the call passes none): Popen has no such
\* parameter, and communicate() is called without one.
CMDRunner_run(timeout, proc) ==
  IF timeout # 0 THEN [raises |-> "TypeError"]
  ELSE IF "oserror" \in DOMAIN proc THEN [raises |-> proc.oserror]
  ELSE [stdout |-> proc.stdout, returncode |-> proc.returncode]

\* shutil.which(binary): the full path, or "" when the search path has no
\* such executable.
which(binary) ==
  IF binary = "storcli64" THEN "/usr/sbin/storcli64" ELSE ""

\* binaryCheck of the runner class r: Return(path), or StorCliError, whose
\* message reads os.environ['PATH'] (cmdRunner.py 42); environ is the set
\* of the names of the environment variables.
binaryCheck(r, binary, environ) ==
  IF r = "StorcliCMDFile" THEN Return("/dev/null")
  ELSE IF which(binary) = ""
  THEN IF "PATH" \in environ THEN Raise([exc |-> "StorCliError"])
       ELSE Raise([exc |-> "KeyError", key |-> "PATH"])
  ELSE Return(which(binary))

(***************************************************************************)
(* Bounds and input sets.                                                  *)
(***************************************************************************)
\* The number of StorCLI objects that are ever created.
MaxObjs == 2

\* The longest Detailed Status list the runner reports.
MaxDetailed == 2

\* The calling threads.
Threads == {1, 2}

\* The environments of the process: with and without the variable PATH
\* (shutil.which then searches os.defpath).
Environs == {{"HOME", "PATH"}, {"HOME"}}

\* Arguments of the constructor: binary, and cmdrunner ("None" when absent).
Binaries == {"storcli64", "idontexist"}

RunnerArgs == {"None", "StorcliCMDFile"}

\* Argument vectors of run().
ArgVectors == {<<"/c0", "show">>, <<"/c0/fall", "show">>}

\* Entries of a Detailed Status list: codes of the table (59, 1), a code the
\* table does not have (200), and an entry without ErrCd.
Entries == {[ErrCd |-> 59], [ErrCd |-> 1], [ErrCd |-> 200], [Value |-> "-"]}

DetailedLists == UNION {[1..k -> Entries] : k \in 0..MaxDetailed}

Descriptions ==
  {"Incomplete foreign configuration", "Invalid command.", "Unknown"}

CommandStatuses ==
  {[Status |-> "Failure", DetailedStatus |-> d] : d \in DetailedLists}
  \cup {[Status |-> "Failure", Description |-> d] : d \in Descriptions}
  \cup {[Status |-> "Failure"]}

\* Decoded JSON documents: one controller block, with Response Data when
\* the command succeeded; and a document without a Controllers key.
SuccessDoc(data) ==
  [Controllers |-> <<[CommandStatus |-> [Status |-> "Success"],
                      ResponseData |-> [Data |-> data]]>>]

FailureDoc(cs) == [Controllers |-> <<[CommandStatus |-> cs]>>]

Docs ==
  {SuccessDoc(d) : d \in {"d1", "d2"}}
  \cup {FailureDoc(cs) : cs \in CommandStatuses}
  \cup {[Version |-> "1"]}

\* Texts that json.loads rejects: key = value lines with and without a
\* Status key, a banner, and neither.
StatusText ==
  << <<"Status", " ", "=", " ", "Success">>, <<"Foo", " ", "=", " ", "Bar">> >>

FailureText == << <<"Status", "=", "Failure">> >>

BannerText ==
  << <<"Fatal", " ", "error">>, <<"Storage", " ", "Command", " ", "Line">> >>

OtherText == << <<"garbage", " ", "not", " ", "json">>, <<"Foo", "=", "Bar">> >>

\* A key given twice, and a value with an "=" of its own.
RepeatText ==
  << <<"Status", "=", "Failure">>,
     <<"Opt", " ", "=", "a", "=", "b">>,
     <<" ", "Status", " ", "=", " ", "Success", " ">> >>

Texts == {StatusText, FailureText, BannerText, OtherText, RepeatText}

ExitCodes == {0, 1}

\* What an invocation of the command runner can give.
RunnerResults ==
  {[stdout |-> [json |-> d], returncode |-> c] : d \in Docs, c \in ExitCodes}
  \cup {[stdout |-> [text |-> x], returncode |-> c] : x \in Texts, c \in ExitCodes}
  \cup {[raises |-> e] : e \in {"TimeoutExpired", "SubprocessError", "PermissionError"}}

\* The allow_error_codes lists callers pass.
AllowLists ==
  {{}, {INCOMPLETE_FOREIGN_CONFIGURATION},
   {INCOMPLETE_FOREIGN_CONFIGURATION, INVALID_STATUS}}

\* The smaller sets used when several threads call.
SomeRunnerResults ==
  {[stdout |-> [json |-> SuccessDoc("d1")], returncode |-> 0],
   [stdout |-> [json |-> FailureDoc([Status |-> "Failure",
                                     DetailedStatus |-> <<[ErrCd |-> 59]>>])],
    returncode |-> 0],
   [stdout |-> [text |-> StatusText], returncode |-> 0]}

SomeAllowLists == {{}, {INCOMPLETE_FOREIGN_CONFIGURATION}}

SomeArgVectors == {<<"/c0", "show">>}

(***************************************************************************)
(* State.                                                                  *)
(***************************************************************************)
VARIABLES
  SINGLETON_STORCLI_MODULE_ENABLE, \* the module flag (storcli.py 25)
  singleton_instance,  \* StorCLI.__singleton_instance: 0 (None) or an object
  objs,                \* the StorCLI objects created so far, in order
  response_cache,      \* [0] the class attribute's dict, [i] object i's own
  locks,               \* owner of each threading.Lock: 0 (free) or a thread
  pc,                  \* where each thread is
  frame,               \* the locals of the call each thread is in
  last                 \* each thread's last completed call and its result

vars ==
  <<SINGLETON_STORCLI_MODULE_ENABLE, singleton_instance, objs,
    response_cache, locks, pc, frame, last>>

\* StorCLI.__cache_lock, the class attribute: the lock of every object that
\* has none of its own.
ClassLock == 1

\* Enough locks for the class, every object and every thread that still
\* holds or awaits a lock no object refers to any more.
LockIds == 1..(1 + MaxObjs + Cardinality(Threads))

\* A lock nothing refers to: what threading.Lock() returns.
NewLock ==
  CHOOSE l \in LockIds \ {ClassLock} :
    /\ \A i \in 1..Len(objs) : objs[i].cache_lock # l
    /\ locks[l] = 0
    /\ \A t \in Threads :
         pc[t] \in {"run_wait", "run_exec", "clear_wait", "enable_wait",
                    "set_wait"}
           => frame[t].lock # l

\* The attributes of an object that __new__ has just made: every attribute
\* is still the class attribute, and _storcli does not exist ("").
NewObject ==
  [storcli |-> "", cmdrunner |-> "CMDRunner", cache_lock |-> ClassLock,
   cache_enabled |-> FALSE, own_cache |-> FALSE]

\* The dict self.__response_cache refers to: the object's own, once it has
\* assigned one, else the class attribute's.
CacheRef(i) == IF objs[i].own_cache THEN i ELSE 0

Cache(i) == response_cache[CacheRef(i)]

NoFrame ==
  [inst |-> 0, key |-> "", allow |-> {}, lock |-> 0, binary |-> "",
   cmdrunner |-> "", timeout |-> 0]

NoCall ==
  [op |-> "none", inst |-> 0, key |-> "", allow |-> {}, cached |-> FALSE,
   spawned |-> FALSE, ret |-> [none |-> TRUE], outcome |-> [kind |-> "none"]]

Init ==
  /\ SINGLETON_STORCLI_MODULE_ENABLE = FALSE
  /\ singleton_instance = 0
  /\ objs = << >>
  /\ response_cache = [i \in 0..MaxObjs |-> << >>]
  /\ locks = [l \in LockIds |-> 0]
  /\ pc = [t \in Threads |-> "idle"]
  /\ frame = [t \in Threads |-> NoFrame]
  /\ last = [t \in Threads |-> NoCall]


(***************************************************************************)
(* The singleton switch (storcli.py 255-283).  Each body runs under        *)
(* _SINGLETON_STORCLI_MODULE_LOCK and does not block, so it is one step.   *)
(***************************************************************************)
\* The switch as it would be if disabling dropped the retained instance.
set_singleton_forgetting(t, v) ==
  /\ pc[t] = "idle"
  /\ SINGLETON_STORCLI_MODULE_ENABLE' = v
  /\ singleton_instance' = IF v THEN singleton_instance ELSE 0
  /\ last' = [last EXCEPT ![t] = NoCall]
  /\ UNCHANGED <<objs, response_cache, locks, pc, frame>>

set_singleton(t, v) ==
  /\ pc[t] = "idle"
  /\ SINGLETON_STORCLI_MODULE_ENABLE' = v
  /\ last' = [last EXCEPT ![t] = NoCall]
  /\ UNCHANGED <<singleton_instance, objs, response_cache, locks, pc, frame>>

enable_singleton(t) == set_singleton(t, TRUE)

disable_singleton(t) == set_singleton(t, FALSE)

(***************************************************************************)
(* StorCLI(binary, cmdrunner): __new__ (storcli.py 55-66), one step under  *)
(* the module lock, and then __init__ (68-84) on the object it returned.   *)
(***************************************************************************)
New(t, binary, cmdrunner) ==
  /\ pc[t] = "idle"
  /\ IF SINGLETON_STORCLI_MODULE_ENABLE /\ singleton_instance # 0
     THEN /\ frame' = [frame EXCEPT ![t] =
                 [NoFrame EXCEPT !.inst = singleton_instance,
                                 !.binary = binary, !.cmdrunner = cmdrunner]]
          /\ UNCHANGED <<singleton_instance, objs>>
     ELSE /\ Len(objs) < MaxObjs
          /\ objs' = Append(objs, NewObject)
          /\ singleton_instance' =
               IF SINGLETON_STORCLI_MODULE_ENABLE THEN Len(objs) + 1
               ELSE singleton_instance
          /\ frame' = [frame EXCEPT ![t] =
                 [NoFrame EXCEPT !.inst = Len(objs) + 1,
                                 !.binary = binary, !.cmdrunner = cmdrunner]]
  /\ pc' = [pc EXCEPT ![t] = "init"]
  /\ UNCHANGED <<SINGLETON_STORCLI_MODULE_ENABLE, response_cache, locks, last>>

InitObject(t) ==
  /\ pc[t] = "init"
  /\ \E environ \in Environs :
       LET i == frame[t].inst
           runner == IF frame[t].cmdrunner # "None" THEN frame[t].cmdrunner
                     ELSE objs[i].cmdrunner
           found == binaryCheck(runner, frame[t].binary, environ)
           call == [NoCall EXCEPT !.op = "init", !.inst = i,
                                  !.ret = [runner |-> runner,
                                           binary |-> frame[t].binary],
                                  !.outcome = found]
       IN  IF found.kind = "raise"
           THEN /\ last' = [last EXCEPT ![t] = call]
                /\ UNCHANGED <<objs, locks>>
           ELSE /\ objs' = [objs EXCEPT ![i] =
                     [@ EXCEPT !.storcli = found.value,
                               !.cmdrunner = runner,
                               !.cache_lock =
                                 IF ~SINGLETON_STORCLI_MODULE_ENABLE
                                 THEN NewLock ELSE @]]
                /\ last' = [last EXCEPT ![t] = call]
                /\ UNCHANGED locks
  /\ pc' = [pc EXCEPT ![t] = "idle"]
  /\ frame' = [frame EXCEPT ![t] = NoFrame]
  /\ UNCHANGED <<SINGLETON_STORCLI_MODULE_ENABLE, singleton_instance,
                 response_cache>>

\* set_cmdrunner (storcli.py 86-91).
set_cmdrunner(t, i, cmdrunner) ==
  /\ pc[t] = "idle"
  /\ i \in 1..Len(objs) /\ objs[i].storcli # ""
  /\ objs' = [objs EXCEPT ![i].cmdrunner = cmdrunner]
  /\ last' = [last EXCEPT ![t] = NoCall]
  /\ UNCHANGED <<SINGLETON_STORCLI_MODULE_ENABLE, singleton_instance,
                 response_cache, locks, pc, frame>>

(***************************************************************************)
(* The cache_enable setter (storcli.py 103-106) and clear_cache (108-112): *)
(* with self.__cache_lock evaluates the attribute, then waits for that     *)
(* lock; the body under the lock is one assignment.                        *)
(***************************************************************************)
SetCacheEnable(i, v) == [objs EXCEPT ![i].cache_enabled = v]

cache_enable(t, i, v) ==
  /\ pc[t] = "idle"
  /\ i \in 1..Len(objs) /\ objs[i].storcli # ""
  /\ IF locks[objs[i].cache_lock] = 0
     THEN /\ objs' = SetCacheEnable(i, v)
          /\ last' = [last EXCEPT ![t] = NoCall]
          /\ UNCHANGED <<pc, frame>>
     ELSE /\ pc' = [pc EXCEPT ![t] = "enable_wait"]
          /\ frame' = [frame EXCEPT ![t] =
                 [NoFrame EXCEPT !.inst = i, !.lock = objs[i].cache_lock,
                                 !.allow = {v}]]
          /\ UNCHANGED <<objs, last>>
  /\ UNCHANGED <<SINGLETON_STORCLI_MODULE_ENABLE, singleton_instance,
                 response_cache, locks>>

cache_enable_locked(t) ==
  /\ pc[t] = "enable_wait"
  /\ locks[frame[t].lock] = 0
  /\ LET v == CHOOSE v \in frame[t].allow : TRUE
     IN  /\ objs' = SetCacheEnable(frame[t].inst, v)
         /\ last' = [last EXCEPT ![t] =
                       NoCall]
  /\ pc' = [pc EXCEPT ![t] = "idle"]
  /\ frame' = [frame EXCEPT ![t] = NoFrame]
  /\ UNCHANGED <<SINGLETON_STORCLI_MODULE_ENABLE, singleton_instance,
                 response_cache, locks>>

\* The assignment as it would be if clear_cache() left the dict in place.
ClearAssignKeeping(i) == UNCHANGED <<objs, response_cache>>

\* self.__response_cache = {}: the object gets a dict of its own.
ClearAssign(i) ==
  /\ objs' = [objs EXCEPT ![i].own_cache = TRUE]
  /\ response_cache' = [response_cache EXCEPT ![i] = << >>]

\* What a clear_cache() that returns leaves behind: the call, its object,
\* the keys of the dict the attribute referred to before, and the threads
\* that are in the locked section of run() on the object at that moment.
Cleared(i) ==
  [NoCall EXCEPT !.op = "clear_cache", !.inst = i,
                 !.ret = [removed |-> DOMAIN Cache(i),
                          inflight |-> {u \in Threads :
                                          /\ pc[u] = "run_exec"
                                          /\ frame[u].inst = i}]]

clear_cache(t, i) ==
  /\ pc[t] = "idle"
  /\ i \in 1..Len(objs) /\ objs[i].storcli # ""
  /\ IF locks[objs[i].cache_lock] = 0
     THEN /\ ClearAssign(i)
          /\ last' = [last EXCEPT ![t] = Cleared(i)]
          /\ UNCHANGED <<pc, frame>>
     ELSE /\ pc' = [pc EXCEPT ![t] = "clear_wait"]
          /\ frame' = [frame EXCEPT ![t] =
                 [NoFrame EXCEPT !.inst = i, !.lock = objs[i].cache_lock]]
          /\ UNCHANGED <<objs, response_cache, last>>
  /\ UNCHANGED <<SINGLETON_STORCLI_MODULE_ENABLE, singleton_instance, locks>>

clear_cache_locked(t) ==
  /\ pc[t] = "clear_wait"
  /\ locks[frame[t].lock] = 0
  /\ ClearAssign(frame[t].inst)
  /\ last' = [last EXCEPT ![t] = Cleared(frame[t].inst)]
  /\ pc' = [pc EXCEPT ![t] = "idle"]
  /\ frame' = [frame EXCEPT ![t] = NoFrame]
  /\ UNCHANGED <<SINGLETON_STORCLI_MODULE_ENABLE, singleton_instance, locks>>

(***************************************************************************)
(* StorCLI.run (storcli.py 185-252).                                       *)
(***************************************************************************)
\* cmd_cache_key (206-210): ''.join([self._storcli] + args + ['J']).
cmd_cache_key(storcli, args) == join(<<storcli>> \o args \o <<"J">>)

\* The cache setter (126-129): self.__response_cache = value under the
\* lock.  dict names the dict assigned: an empty one, or one with an entry
\* for  /c0 show.
CacheValues == {"empty", "seeded"}

CacheValue(i, dict) ==
  IF dict = "empty" THEN << >>
  ELSE cmd_cache_key(objs[i].storcli, <<"/c0", "show">>)
         :> [doc |-> SuccessDoc("d2"), by |-> i]

CacheAssign(i, dict) ==
  /\ objs' = [objs EXCEPT ![i].own_cache = TRUE]
  /\ response_cache' = [response_cache EXCEPT ![i] = CacheValue(i, dict)]

cache_set(t, i, dict) ==
  /\ pc[t] = "idle"
  /\ i \in 1..Len(objs) /\ objs[i].storcli # ""
  /\ IF locks[objs[i].cache_lock] = 0
     THEN /\ CacheAssign(i, dict)
          /\ last' = [last EXCEPT ![t] =
                [NoCall EXCEPT !.op = "cache", !.inst = i, !.key = dict]]
          /\ UNCHANGED <<pc, frame>>
     ELSE /\ pc' = [pc EXCEPT ![t] = "set_wait"]
          /\ frame' = [frame EXCEPT ![t] =
                 [NoFrame EXCEPT !.inst = i, !.lock = objs[i].cache_lock,
                                 !.key = dict]]
          /\ UNCHANGED <<objs, response_cache, last>>
  /\ UNCHANGED <<SINGLETON_STORCLI_MODULE_ENABLE, singleton_instance, locks>>

cache_set_locked(t) ==
  /\ pc[t] = "set_wait"
  /\ locks[frame[t].lock] = 0
  /\ CacheAssign(frame[t].inst, frame[t].key)
  /\ last' = [last EXCEPT ![t] =
        [NoCall EXCEPT !.op = "cache", !.inst = frame[t].inst,
                       !.key = frame[t].key]]
  /\ pc' = [pc EXCEPT ![t] = "idle"]
  /\ frame' = [frame EXCEPT ![t] = NoFrame]
  /\ UNCHANGED <<SINGLETON_STORCLI_MODULE_ENABLE, singleton_instance, locks>>

\* The call, up to the test  cmd_cache_key in self.__response_cache  (212-213).
run(t, i, args, allow_error_codes) ==
  /\ pc[t] = "idle"
  /\ i \in 1..Len(objs) /\ objs[i].storcli # ""
  /\ LET key == cmd_cache_key(objs[i].storcli, args)
     IN  /\ frame' = [frame EXCEPT ![t] =
                 [NoFrame EXCEPT !.inst = i, !.key = key,
                                 !.allow = allow_error_codes]]
         /\ pc' = [pc EXCEPT ![t] =
                 IF objs[i].cache_enabled /\ key \in DOMAIN Cache(i)
                 THEN "run_hit" ELSE "run_lock"]
  /\ UNCHANGED <<SINGLETON_STORCLI_MODULE_ENABLE, singleton_instance, objs,
                 response_cache, locks, last>>

\* The call with timeout=... among its keyword arguments, which run() hands
\* to the runner (218-219).
run_kwargs(t, i, args, allow_error_codes, timeout) ==
  /\ pc[t] = "idle"
  /\ i \in 1..Len(objs) /\ objs[i].storcli # ""
  /\ LET key == cmd_cache_key(objs[i].storcli, args)
     IN  /\ frame' = [frame EXCEPT ![t] =
                 [NoFrame EXCEPT !.inst = i, !.key = key,
                                 !.allow = allow_error_codes,
                                 !.timeout = timeout]]
         /\ pc' = [pc EXCEPT ![t] =
                 IF objs[i].cache_enabled /\ key \in DOMAIN Cache(i)
                 THEN "run_hit" ELSE "run_lock"]
  /\ UNCHANGED <<SINGLETON_STORCLI_MODULE_ENABLE, singleton_instance, objs,
                 response_cache, locks, last>>

\* return self.__response_cache[cmd_cache_key] (214): a second look at the
\* attribute, which raises KeyError if the key is not there any more.
run_hit(t) ==
  /\ pc[t] = "run_hit"
  /\ LET i == frame[t].inst
         key == frame[t].key
         outcome == IF key \in DOMAIN Cache(i) THEN Return(Cache(i)[key].doc)
                    ELSE Raise([exc |-> "KeyError", key |-> key])
     IN  last' = [last EXCEPT ![t] =
           [NoCall EXCEPT !.op = "run", !.inst = i, !.key = key,
                          !.allow = frame[t].allow, !.cached = TRUE,
                          !.ret = IF key \in DOMAIN Cache(i)
                                  THEN [by |-> Cache(i)[key].by]
                                  ELSE [none |-> TRUE],
                          !.outcome = outcome]]
  /\ pc' = [pc EXCEPT ![t] = "idle"]
  /\ frame' = [frame EXCEPT ![t] = NoFrame]
  /\ UNCHANGED <<SINGLETON_STORCLI_MODULE_ENABLE, singleton_instance, objs,
                 response_cache, locks>>

\* The step as it would be if run() went on without the lock.
run_lock_skipping(t) ==
  /\ pc[t] = "run_lock"
  /\ frame' = [frame EXCEPT ![t].lock = objs[frame[t].inst].cache_lock]
  /\ pc' = [pc EXCEPT ![t] = "run_exec"]
  /\ UNCHANGED <<SINGLETON_STORCLI_MODULE_ENABLE, singleton_instance, objs,
                 response_cache, locks, last>>

\* with self.__cache_lock (216): the attribute is evaluated, and the thread
\* has the lock at once if it is free; the runner is invoked next (218).
run_lock(t) ==
  /\ pc[t] = "run_lock"
  /\ LET l == objs[frame[t].inst].cache_lock
     IN  /\ frame' = [frame EXCEPT ![t].lock = l]
         /\ IF locks[l] = 0
            THEN /\ locks' = [locks EXCEPT ![l] = t]
                 /\ pc' = [pc EXCEPT ![t] = "run_exec"]
            ELSE /\ pc' = [pc EXCEPT ![t] = "run_wait"]
                 /\ UNCHANGED locks
  /\ UNCHANGED <<SINGLETON_STORCLI_MODULE_ENABLE, singleton_instance, objs,
                 response_cache, last>>

run_wait(t) ==
  /\ pc[t] = "run_wait"
  /\ locks[frame[t].lock] = 0
  /\ locks' = [locks EXCEPT ![frame[t].lock] = t]
  /\ pc' = [pc EXCEPT ![t] = "run_exec"]
  /\ UNCHANGED <<SINGLETON_STORCLI_MODULE_ENABLE, singleton_instance, objs,
                 response_cache, frame, last>>

\* self.__response_cache[cmd_cache_key] = ret_json (228); the entry keeps,
\* beside the document, the object whose run() stored it.
\* The store as it would be if run() kept nothing.
CacheStoreNothing(i, key, doc) == response_cache

CacheStore(i, key, doc) ==
  [response_cache EXCEPT ![CacheRef(i)] = (key :> [doc |-> doc, by |-> i]) @@ @]

\* The step as it would be if an error left the lock held.
run_exec_holding(t, ret) ==
  /\ pc[t] = "run_exec"
  /\ \E body \in {RunBody(ret, frame[t].allow,
                           objs[frame[t].inst].cache_enabled)} :
       /\ response_cache' =
             IF body.store
             THEN CacheStore(frame[t].inst, frame[t].key, body.outcome.value)
             ELSE response_cache
       /\ last' = [last EXCEPT ![t] =
             [NoCall EXCEPT !.op = "run", !.inst = frame[t].inst,
                            !.key = frame[t].key,
                            !.allow = frame[t].allow, !.spawned = TRUE,
                            !.ret = ret, !.outcome = body.outcome]]
       /\ locks' = IF body.outcome.kind = "raise" THEN locks
                   ELSE [locks EXCEPT ![frame[t].lock] = 0]
  /\ pc' = [pc EXCEPT ![t] = "idle"]
  /\ frame' = [frame EXCEPT ![t] = NoFrame]
  /\ UNCHANGED <<SINGLETON_STORCLI_MODULE_ENABLE, singleton_instance, objs>>

\* The runner gives ret; the rest of the body (220-252) and the release of
\* the lock.
run_exec(t, ret) ==
  /\ pc[t] = "run_exec"
  /\ LET i == frame[t].inst
         body == RunBody(ret, frame[t].allow, objs[i].cache_enabled)
     IN  /\ response_cache' =
               IF body.store THEN CacheStore(i, frame[t].key, body.outcome.value)
               ELSE response_cache
         /\ last' = [last EXCEPT ![t] =
               [NoCall EXCEPT !.op = "run", !.inst = i, !.key = frame[t].key,
                              !.allow = frame[t].allow, !.spawned = TRUE,
                              !.ret = ret, !.outcome = body.outcome]]
  /\ locks' = [locks EXCEPT ![frame[t].lock] = 0]
  /\ pc' = [pc EXCEPT ![t] = "idle"]
  /\ frame' = [frame EXCEPT ![t] = NoFrame]
  /\ UNCHANGED <<SINGLETON_STORCLI_MODULE_ENABLE, singleton_instance, objs>>

(***************************************************************************)
(* Specifications.                                                         *)
(***************************************************************************)
\* One thread that constructs executors, switches the singleton mode, sets
\* cache_enable, clears caches and runs one command on any of them, with
\* few runner results.
Next ==
  \/ enable_singleton(1)
  \/ disable_singleton(1)
  \/ New(1, "storcli64", "None")
  \/ InitObject(1)
  \/ \E i \in 1..MaxObjs, v \in BOOLEAN : cache_enable(1, i, v)
  \/ \E i \in 1..MaxObjs : clear_cache(1, i)
  \/ \E i \in 1..MaxObjs, a \in SomeArgVectors, l \in SomeAllowLists :
       run(1, i, a, l)
  \/ run_hit(1)
  \/ run_lock(1)
  \/ \E ret \in SomeRunnerResults : run_exec(1, ret)

Spec == Init /\ [][Next]_vars

\* One thread and one executor without caching: the thread constructs it
\* and runs one command, with every allow list and every runner result.
SeqNext ==
  \/ Len(objs) = 0 /\ New(1, "storcli64", "None")
  \/ InitObject(1)
  \/ \E l \in AllowLists : run(1, 1, <<"/c0", "show">>, l)
  \/ run_lock(1)
  \/ \E ret \in RunnerResults : run_exec(1, ret)

SeqSpec == Init /\ [][SeqNext]_vars

\* One thread and one executor with caching: the thread constructs it, sets
\* cache_enable, clears the cache and runs two commands, with the runner
\* results that tell the kinds of outcome apart.
CacheRunnerResults ==
  SomeRunnerResults
  \cup {[stdout |-> [json |-> SuccessDoc("d2")], returncode |-> 0],
        [stdout |-> [json |-> SuccessDoc("d1")], returncode |-> 1],
        [stdout |-> [text |-> OtherText], returncode |-> 0]}

CacheNext ==
  \/ Len(objs) = 0 /\ New(1, "storcli64", "None")
  \/ InitObject(1)
  \/ \E v \in BOOLEAN : cache_enable(1, 1, v)
  \/ clear_cache(1, 1)
  \/ \E a \in ArgVectors, l \in SomeAllowLists : run(1, 1, a, l)
  \/ run_hit(1)
  \/ run_lock(1)
  \/ \E ret \in CacheRunnerResults : run_exec(1, ret)

CacheSpec == Init /\ [][CacheNext]_vars

\* Two threads that switch the singleton mode and construct executors with
\* every binary and runner; nothing is run.
CtorNext ==
  \E t \in Threads :
    \/ enable_singleton(t)
    \/ disable_singleton(t)
    \/ \E b \in Binaries, r \in RunnerArgs : New(t, b, r)
    \/ InitObject(t)

CtorSpec == Init /\ [][CtorNext]_vars

\* One thread that switches the singleton mode, constructs executors with
\* every binary and runner in every environment, and sets their runner.
BindNext ==
  \/ enable_singleton(1)
  \/ disable_singleton(1)
  \/ \E b \in Binaries, r \in RunnerArgs : New(1, b, r)
  \/ InitObject(1)
  \/ \E i \in 1..MaxObjs, r \in {"CMDRunner", "StorcliCMDFile"} :
       set_cmdrunner(1, i, r)

BindSpec == Init /\ [][BindNext]_vars

\* Two threads that share one executor: each constructs (in singleton mode
\* the construction gives the retained object), switches the singleton
\* mode, sets cache_enable, clears the cache and runs one command whose
\* runner result is a success.
ThreadNext ==
  \E t \in Threads :
    \/ enable_singleton(t)
    \/ disable_singleton(t)
    \/ /\ \/ Len(objs) = 0
          \/ SINGLETON_STORCLI_MODULE_ENABLE /\ singleton_instance # 0
       /\ New(t, "storcli64", "None")
    \/ InitObject(t)
    \/ \E v \in BOOLEAN : cache_enable(t, 1, v)
    \/ cache_enable_locked(t)
    \/ clear_cache(t, 1)
    \/ clear_cache_locked(t)
    \/ run(t, 1, <<"/c0", "show">>, {})
    \/ run_hit(t)
    \/ run_lock(t)
    \/ run_wait(t)
    \/ run_exec(t, [stdout |-> [json |-> SuccessDoc("d1")], returncode |-> 0])

ThreadSpec == Init /\ [][ThreadNext]_vars

\* The body of run() when the executor's runner is a CMDRunner and the
\* command is the process proc.
run_spawn(t, proc) ==
  /\ pc[t] = "run_exec"
  /\ objs[frame[t].inst].cmdrunner = "CMDRunner"
  /\ run_exec(t, CMDRunner_run(frame[t].timeout, proc))

\* The timeouts callers pass, in seconds, and the processes: each ends
\* before or after the timeout, or cannot be started.
Timeouts == {1}

Procs ==
  {[stdout |-> r.stdout, returncode |-> r.returncode, seconds |-> s] :
     r \in SomeRunnerResults \cup
            {[stdout |-> [json |-> SuccessDoc("d1")], returncode |-> 1]},
     s \in {0, 2}}
  \cup {[oserror |-> "PermissionError"]}

\* One thread and one executor with the default runner: the thread runs one
\* command, with and without a timeout, on every process.
RunnerNext ==
  \/ Len(objs) = 0 /\ New(1, "storcli64", "None")
  \/ InitObject(1)
  \/ \E a \in ArgVectors, l \in SomeAllowLists : run(1, 1, a, l)
  \/ \E a \in ArgVectors, l \in SomeAllowLists, s \in Timeouts :
       run_kwargs(1, 1, a, l, s)
  \/ run_lock(1)
  \/ \E proc \in Procs : run_spawn(1, proc)

RunnerSpec == Init /\ [][RunnerNext]_vars

\* A call of StorcliError.get(v) by a thread that has made no call yet.
call_get(t, v) ==
  /\ pc[t] = "idle"
  /\ last[t] = NoCall
  /\ last' = [last EXCEPT ![t] =
        [NoCall EXCEPT !.op = "get", !.ret = v, !.outcome = Return(get(v))]]
  /\ UNCHANGED <<SINGLETON_STORCLI_MODULE_ENABLE, singleton_instance, objs,
                 response_cache, locks, pc, frame>>

\* The arguments of get: every code and every description of the table,
\* and integers and texts the table does not have.
GetInputs ==
  {[int |-> value(i)] : i \in 1..Len(StorcliError)}
  \cup {[str |-> description(i)] : i \in 1..Len(StorcliError)}
  \cup {[str |-> detailed_description(i)] : i \in 1..Len(StorcliError)}
  \cup {[int |-> n] : n \in {-1, 200, 256}}
  \cup {[str |-> s] : s \in {"", "Unknown"}}

\* One thread that looks one value up.
GetNext == \E v \in GetInputs : call_get(1, v)

GetSpec == Init /\ [][GetNext]_vars

\* A call of StorCLI.check_response_status(cmd, out, allow_error_codes) by
\* a thread that has made no call yet.
call_check_response_status(t, out, allow_error_codes) ==
  /\ pc[t] = "idle"
  /\ last[t] = NoCall
  /\ last' = [last EXCEPT ![t] =
        [NoCall EXCEPT !.op = "check_response_status",
                       !.ret = [out |-> out],
                       !.allow = allow_error_codes,
                       !.outcome = check_response_status(out, allow_error_codes)]]
  /\ UNCHANGED <<SINGLETON_STORCLI_MODULE_ENABLE, singleton_instance, objs,
                 response_cache, locks, pc, frame>>

\* The allow lists of the status check: those of run(), and one with the
\* code of "Invalid command.".
StatusAllowLists == AllowLists \cup {{"SERROR_1"}}

\* One thread that checks the status of one response.
StatusNext ==
  \E out \in Docs, l \in StatusAllowLists :
    call_check_response_status(1, out, l)

StatusSpec == Init /\ [][StatusNext]_vars

(***************************************************************************)
(* What the claims speak of.                                               *)
(***************************************************************************)
\* Thread t's last completed call is a run() that invoked the runner, and
\* the runner returned (stdout, returncode).
Ran(t) ==
  last[t].op = "run" /\ last[t].spawned /\ "stdout" \in DOMAIN last[t].ret

\* A structured response: JSON whose Controllers list has a first block
\* with a Command Status that has a Status.
Structured(ret) ==
  /\ "json" \in DOMAIN ret.stdout
  /\ response_cmd(ret.stdout.json).kind = "return"
  /\ "Status" \in DOMAIN response_cmd(ret.stdout.json).value

StatusOf(ret) == response_cmd(ret.stdout.json).value

IsSuccess(ret) == Structured(ret) /\ StatusOf(ret).Status = "Success"

IsFailure(ret) == Structured(ret) /\ StatusOf(ret).Status = "Failure"

\* The entry of a Detailed Status list is one the allow list lets pass.
Allowed(entry, allow) ==
  "ErrCd" \in DOMAIN entry /\ get([int |-> entry.ErrCd]) \in allow

\* The code of the member of StorcliError called name.
CodeOf(name) ==
  StorcliError[CHOOSE i \in 1..Len(StorcliError) : StorcliError[i].name = name].code

\* The error of run() for a non-zero exit code.
ProcessFailure(ret) ==
  Raise([exc |-> "StorCliRunTimeError", retcode |-> ret.returncode])

\* C1 as stated: for every runner result whose stdout is a structured
\* response with Status = Success, run() raises nothing and returns the
\* first block's Response Data.
C1_AsStated ==
  \A t \in Threads :
    (Ran(t) /\ IsSuccess(last[t].ret)) =>
      /\ last[t].outcome.kind = "return"
      /\ Return(last[t].outcome.value) = response_data(last[t].ret.stdout.json)

\* C1 amended: for every runner result with exit code 0 whose stdout is a
\* structured response with Status = Success, run() raises nothing and
\* returns the whole decoded response, whose first block holds the Response
\* Data; with a non-zero exit code it raises StorCliRunTimeError.
C1_ReturnsResponse ==
  \A t \in Threads :
    (Ran(t) /\ IsSuccess(last[t].ret)) =>
      IF last[t].ret.returncode = 0
      THEN /\ last[t].outcome = Return(last[t].ret.stdout.json)
           /\ response_data(last[t].outcome.value)
                = response_data(last[t].ret.stdout.json)
      ELSE last[t].outcome = ProcessFailure(last[t].ret)

C1_Witness ==
  \E t \in Threads :
    /\ Ran(t) /\ IsSuccess(last[t].ret) /\ last[t].ret.returncode = 0
    /\ last[t].outcome.kind = "return"
    /\ response_data(last[t].outcome.value) = Return([Data |-> "d2"])

\* Every entry of a Failure's Detailed Status resolves to an allowed code.
AllAllowed(ret, allow) ==
  /\ IsFailure(ret)
  /\ "DetailedStatus" \in DOMAIN StatusOf(ret)
  /\ \A k \in 1..Len(StatusOf(ret).DetailedStatus) :
       Allowed(StatusOf(ret).DetailedStatus[k], allow)

\* A result the caller can tell from a success: a returned response whose
\* Status is Failure.
SoftFailure(outcome) ==
  /\ outcome.kind = "return"
  /\ response_cmd(outcome.value).kind = "return"
  /\ response_cmd(outcome.value).value.Status = "Failure"

\* C2 as stated: for every structured Failure whose Detailed Status
\* entries all resolve to allowed codes, run() raises nothing and returns a
\* soft-failure result.
C2_AsStated ==
  \A t \in Threads :
    (Ran(t) /\ AllAllowed(last[t].ret, last[t].allow)) =>
      SoftFailure(last[t].outcome)

\* C2 amended: the same when the exit code is 0; the result is the decoded
\* response, whose Status is Failure.  With a non-zero exit code run()
\* raises StorCliRunTimeError.
C2_SoftFailure ==
  \A t \in Threads :
    (Ran(t) /\ AllAllowed(last[t].ret, last[t].allow)) =>
      IF last[t].ret.returncode = 0
      THEN /\ SoftFailure(last[t].outcome)
           /\ last[t].outcome.value = last[t].ret.stdout.json
      ELSE last[t].outcome = ProcessFailure(last[t].ret)

C2_Witness ==
  \E t \in Threads :
    /\ Ran(t) /\ AllAllowed(last[t].ret, last[t].allow)
    /\ last[t].ret.returncode = 0
    /\ Len(StatusOf(last[t].ret).DetailedStatus) = 2
    /\ SoftFailure(last[t].outcome)

\* The first entry of the Detailed Status that is not allowed.
FirstDisallowed(detailed, allow) ==
  CHOOSE k \in 1..Len(detailed) :
    /\ ~Allowed(detailed[k], allow)
    /\ \A j \in 1..(k - 1) : Allowed(detailed[j], allow)

\* C3: for every structured Failure whose Detailed Status has an entry that
\* is not allowed, run() raises StorCliCmdErrorCode, and the error carries
\* the code of the first such entry.
C3_RaisesFirstDisallowed ==
  \A t \in Threads :
    (/\ Ran(t) /\ IsFailure(last[t].ret)
     /\ "DetailedStatus" \in DOMAIN StatusOf(last[t].ret)
     /\ ~AllAllowed(last[t].ret, last[t].allow)) =>
      LET detailed == StatusOf(last[t].ret).DetailedStatus
          entry == detailed[FirstDisallowed(detailed, last[t].allow)]
      IN  /\ last[t].outcome.kind = "raise"
          /\ last[t].outcome.exc = "StorCliCmdErrorCode"
          /\ "ErrCd" \in DOMAIN entry =>
               CodeOf(last[t].outcome.error_code) = entry.ErrCd

\* C10: for every runner result with a non-zero exit code run() raises; if
\* the status check did not raise, the error is the process failure with
\* that exit code.
C10_NonZeroExitFails ==
  \A t \in Threads :
    (Ran(t) /\ last[t].ret.returncode # 0) =>
      /\ last[t].outcome.kind = "raise"
      /\ (Structured(last[t].ret)
          /\ check_response_status(last[t].ret.stdout.json, last[t].allow).kind
               = "return") =>
           /\ last[t].outcome.exc = "StorCliRunTimeError"
           /\ last[t].outcome.retcode = last[t].ret.returncode

\* Thread t's run() returns or raises in this step.
RunCompletes(t) == pc[t] \in {"run_hit", "run_exec"} /\ pc'[t] = "idle"

\* The run() of thread t that is about to complete follows, with nothing in
\* between, a run() on the same instance with the same arguments, and
\* cache_enable is set.
Consecutive(t) ==
  /\ last[t].op = "run"
  /\ last[t].inst = frame[t].inst
  /\ last[t].key = frame[t].key
  /\ last[t].allow = frame[t].allow
  /\ objs[frame[t].inst].cache_enabled

\* C4 as stated: with cache_enable set, of two consecutive run() calls on
\* one instance with identical arguments at most one invokes the runner and
\* the second result equals the first, whether the first returned a
\* success, a soft failure or a fallback mapping.
C4_AsStated ==
  [][\A t \in Threads :
       (RunCompletes(t) /\ Consecutive(t) /\ last[t].outcome.kind = "return") =>
         /\ ~(last[t].spawned /\ last'[t].spawned)
         /\ last'[t].outcome = last[t].outcome]_vars

\* C4 amended: the same when the first call returned a structured response
\* (a success or a soft failure); a fallback mapping is not kept.
C4_SecondFromCache ==
  [][\A t \in Threads :
       (/\ RunCompletes(t) /\ Consecutive(t)
        /\ last[t].outcome.kind = "return"
        /\ "Controllers" \in DOMAIN last[t].outcome.value) =>
         /\ ~(last[t].spawned /\ last'[t].spawned)
         /\ last'[t].outcome = last[t].outcome]_vars

C4_Witness ==
  \E t \in Threads :
    /\ last[t].op = "run" /\ last[t].cached
    /\ objs[last[t].inst].cache_enabled
    /\ SoftFailure(last[t].outcome)

\* C5: a run() served from the cache has the outcome of a fresh run() with
\* the same allow_error_codes on the runner output that was cached.
C5_HitEqualsFresh ==
  \A t \in Threads :
    (last[t].op = "run" /\ last[t].cached /\ last[t].outcome.kind = "return") =>
      last[t].outcome =
        RunBody([stdout |-> [json |-> last[t].outcome.value], returncode |-> 0],
                last[t].allow, TRUE).outcome

\* C6: with singleton mode disabled (and no instance retained), a run()
\* served from the cache is served a response that a run() on the same
\* instance stored.
C6_InstanceScoped ==
  (~SINGLETON_STORCLI_MODULE_ENABLE /\ singleton_instance = 0) =>
    \A t \in Threads :
      (last[t].op = "run" /\ last[t].cached /\ "by" \in DOMAIN last[t].ret) =>
        last[t].ret.by = last[t].inst

\* Thread t's construction gets its object (__new__ returns) in this step.
NewReturns(t) == pc[t] = "idle" /\ pc'[t] = "init"

\* C7: every construction while singleton mode is enabled returns the
\* retained instance, and the retained instance, once there is one, stays
\* the same through every enabling and disabling.
C7_OneSingleton ==
  [][/\ singleton_instance # 0 => singleton_instance' = singleton_instance
     /\ \A t \in Threads :
          (NewReturns(t) /\ SINGLETON_STORCLI_MODULE_ENABLE) =>
            /\ singleton_instance' # 0
            /\ frame'[t].inst = singleton_instance']_vars

\* A construction in singleton mode returns the retained instance after an
\* instance of a disabled period was created.
C7_Witness ==
  \E t \in Threads :
    /\ pc[t] = "init"
    /\ SINGLETON_STORCLI_MODULE_ENABLE
    /\ frame[t].inst = singleton_instance
    /\ Len(objs) > singleton_instance

\* What the retained singleton holds: its binary path, runner, lock and
\* cache_enable, and the contents of its cache.
SingletonState ==
  [obj |-> objs[singleton_instance], cache |-> Cache(singleton_instance)]

\* Thread t takes a step of a construction of, or an operation on, an
\* instance created after the singleton was retained (so while singleton
\* mode was disabled).
StepOfLaterInstance(t) ==
  \/ pc[t] # "idle" /\ pc'[t] # pc[t] /\ frame[t].inst > singleton_instance
  \/ \E i \in (singleton_instance + 1)..Len(objs) :
       \/ clear_cache(t, i)
       \/ \E v \in BOOLEAN : cache_enable(t, i, v)

\* C8: a construction while singleton mode is disabled returns a new
\* instance and leaves the retained singleton as it is (binary path,
\* runner, lock, cache contents), and so does every later step of the new
\* instance.
C8_SingletonUntouched ==
  [][/\ \A t \in Threads :
          (NewReturns(t) /\ ~SINGLETON_STORCLI_MODULE_ENABLE) =>
            /\ frame'[t].inst \notin 1..Len(objs)
            /\ frame'[t].inst # singleton_instance'
            /\ singleton_instance # 0 => SingletonState' = SingletonState
     /\ \A t \in Threads :
          (singleton_instance # 0 /\ StepOfLaterInstance(t)) =>
            SingletonState' = SingletonState]_vars

\* C9: at most one thread at a time is in the locked section of run() on
\* an instance.
C9_MutualExclusion ==
  \A i \in 1..Len(objs) :
    Cardinality({t \in Threads : pc[t] = "run_exec" /\ frame[t].inst = i}) <= 1

\* The runner's stdout is text that json.loads rejects.
IsText(ret) == "text" \in DOMAIN ret.stdout

\* The lines of a text that have an "=".
EqLines(lines) ==
  {i \in 1..Len(lines) : \E j \in 1..Len(lines[i]) : lines[i][j] = "="}

\* The text has no banner and has a line whose key is Status.
IsFallbackText(ret) ==
  /\ IsText(ret)
  /\ BannerStarts(Flat(ret.stdout.text)) = {}
  /\ \E i \in EqLines(ret.stdout.text) : SplitKey(ret.stdout.text[i]) = "Status"

\* C11: for stdout that is not JSON, has no banner and has a Status = line,
\* run() returns the mapping whose keys are the trimmed left sides of the
\* lines with an "=", each with the trimmed right side (after the first
\* "=") of the last line of that key; a Status of Failure is not looked at.
C11_FallbackMapping ==
  \A t \in Threads :
    (Ran(t) /\ IsFallbackText(last[t].ret)) =>
      LET lines == last[t].ret.stdout.text
      IN  /\ last[t].outcome.kind = "return"
          /\ DOMAIN last[t].outcome.value
               = {SplitKey(lines[i]) : i \in EqLines(lines)}
          /\ \A i \in EqLines(lines) :
               (\A j \in EqLines(lines) :
                  SplitKey(lines[j]) = SplitKey(lines[i]) => j <= i) =>
                 last[t].outcome.value[SplitKey(lines[i])] = SplitValue(lines[i])

\* A text with a repeated key and an "=" in a value was returned as a
\* mapping, and so was a text whose Status is Failure.
C11_Witness ==
  \E t \in Threads :
    /\ Ran(t) /\ IsFallbackText(last[t].ret)
    /\ last[t].ret.stdout.text = RepeatText
    /\ last[t].outcome = Return([Status |-> "Success", Opt |-> "a=b"])

\* The text has no banner and no line whose key is Status.
IsMalformedText(ret) ==
  /\ IsText(ret)
  /\ BannerStarts(Flat(ret.stdout.text)) = {}
  /\ \A i \in EqLines(ret.stdout.text) : SplitKey(ret.stdout.text[i]) # "Status"

\* C12: for stdout that is not JSON, has no banner and gives no Status key,
\* run() raises StorCliCmdError with the message of the JSON decode error,
\* and returns nothing.
C12_MalformedOutput ==
  \A t \in Threads :
    (Ran(t) /\ IsMalformedText(last[t].ret)) =>
      last[t].outcome = Raise([exc |-> "StorCliCmdError", err |-> "JSONDecodeError"])

\* A text with a key = value line, but none for Status, was refused.
C12_Witness ==
  \E t \in Threads :
    /\ Ran(t) /\ IsMalformedText(last[t].ret)
    /\ EqLines(last[t].ret.stdout.text) # {}
    /\ last[t].outcome.kind = "raise"
    /\ last[t].outcome.exc = "StorCliCmdError"

\* C13: for stdout that is JSON without a Controllers key, run() ends as
\* the legacy handler ends: with a fallback mapping (one with a Status key)
\* or with the StorCliCmdError of malformed output, and with no other error.
C13_NoControllersFallsBack ==
  \A t \in Threads :
    (/\ Ran(t) /\ "json" \in DOMAIN last[t].ret.stdout
     /\ "Controllers" \notin DOMAIN last[t].ret.stdout.json) =>
      \/ /\ last[t].outcome.kind = "return"
         /\ "Status" \in DOMAIN last[t].outcome.value
      \/ /\ last[t].outcome.kind = "raise"
         /\ last[t].outcome.exc = "StorCliCmdError"
         /\ "err" \in DOMAIN last[t].outcome

\* C14: when the process runs longer than the timeout passed to run(),
\* run() raises StorCliRunTimeout and no other error.
C14_TimeoutSurfaces ==
  [][\A t \in Threads, proc \in Procs :
       (/\ run_spawn(t, proc)
        /\ frame[t].timeout # 0
        /\ "seconds" \in DOMAIN proc
        /\ proc.seconds > frame[t].timeout) =>
         last'[t].outcome = Raise([exc |-> "StorCliRunTimeout"])]_vars

\* C15: when the runner fails with anything but a timeout, run() raises
\* StorCliRunTimeError; no error of the runner or the system leaves run()
\* as it is.
C15_RunnerFailureWrapped ==
  \A t \in Threads :
    (/\ last[t].op = "run" /\ last[t].spawned
     /\ "raises" \in DOMAIN last[t].ret
     /\ last[t].ret.raises # "TimeoutExpired") =>
      /\ last[t].outcome.kind = "raise"
      /\ last[t].outcome.exc = "StorCliRunTimeError"

\* The argument v is the code or one of the descriptions of the member at
\* position i.
IsOf(v, i) ==
  \/ v = [int |-> value(i)]
  \/ v = [str |-> description(i)]
  \/ v = [str |-> detailed_description(i)]

\* C16: get never raises; given the code, the description or the detailed
\* description of a member it returns that member, and given anything else
\* it returns INVALID_STATUS, whose code is 255.
C16_GetTotal ==
  \A t \in Threads :
    last[t].op = "get" =>
      /\ last[t].outcome.kind = "return"
      /\ \A i \in 1..Len(StorcliError) :
           IsOf(last[t].ret, i) =>
             /\ last[t].outcome.value = StorcliError[i].name
             /\ CodeOf(last[t].outcome.value) = value(i)
      /\ (\A i \in 1..Len(StorcliError) : ~IsOf(last[t].ret, i)) =>
           /\ last[t].outcome.value = INVALID_STATUS
           /\ CodeOf(last[t].outcome.value) = 255

\* The detailed description of a member that has a short description too
\* was looked up and gave the member.
C16_Witness ==
  \E t \in Threads, i \in 1..Len(StorcliError) :
    /\ last[t].op = "get"
    /\ StorcliError[i].name = INCOMPLETE_FOREIGN_CONFIGURATION
    /\ Len(StorcliError[i].short) > 0
    /\ last[t].ret = [str |-> detailed_description(i)]
    /\ last[t].outcome = Return(INCOMPLETE_FOREIGN_CONFIGURATION)

\* Thread t checked a response whose Status is Failure and that has no
\* Detailed Status.
CheckedPlainFailure(t) ==
  /\ last[t].op = "check_response_status"
  /\ response_cmd(last[t].ret.out).kind = "return"
  /\ response_cmd(last[t].ret.out).value.Status = "Failure"
  /\ "DetailedStatus" \notin DOMAIN response_cmd(last[t].ret.out).value

\* The generic StorCliCmdError, with the Command Status as its text.
GenericError(cmd_status) ==
  Raise([exc |-> "StorCliCmdError", status |-> cmd_status])

\* C17: for a Failure without Detailed Status, check_response_status
\* resolves the Description with get: an allowed code other than
\* INVALID_STATUS gives False, one that is not allowed gives
\* StorCliCmdErrorCode with that code, INVALID_STATUS gives the generic
\* StorCliCmdError; so does a Failure without Description.
C17_DescriptionBranch ==
  \A t \in Threads :
    CheckedPlainFailure(t) =>
      LET cmd_status == response_cmd(last[t].ret.out).value
          code == get([str |-> cmd_status.Description])
      IN  IF "Description" \notin DOMAIN cmd_status
          THEN last[t].outcome = GenericError(cmd_status)
          ELSE IF code = INVALID_STATUS
          THEN last[t].outcome = GenericError(cmd_status)
          ELSE IF code \in last[t].allow
          THEN last[t].outcome = Return(FALSE)
          ELSE last[t].outcome = StorCliCmdErrorCode(code)

\* A Description that is a member's short description, allowed, gave False.
C17_Witness ==
  \E t \in Threads :
    /\ CheckedPlainFailure(t)
    /\ "Description" \in DOMAIN response_cmd(last[t].ret.out).value
    /\ response_cmd(last[t].ret.out).value.Description
         = "Incomplete foreign configuration"
    /\ INCOMPLETE_FOREIGN_CONFIGURATION \in last[t].allow
    /\ last[t].outcome = Return(FALSE)

\* Thread t's construction ends (__init__ returns or raises) in this step.
InitReturns(t) == pc[t] = "init" /\ pc'[t] = "idle"

\* C18: in singleton mode, a construction that gets the retained instance
\* with its binary path bound leaves the instance's binary path and runner
\* as they are.
C18_BoundOnce ==
  [][\A t \in Threads :
       (/\ InitReturns(t)
        /\ SINGLETON_STORCLI_MODULE_ENABLE
        /\ frame[t].inst = singleton_instance
        /\ objs[frame[t].inst].storcli # "") =>
         /\ objs'[frame[t].inst].storcli = objs[frame[t].inst].storcli
         /\ objs'[frame[t].inst].cmdrunner = objs[frame[t].inst].cmdrunner]_vars

\* Thread t's last completed call is a construction.
Constructed(t) == last[t].op = "init"

\* The runner's binaryCheck has a path for the binary of the construction.
Resolvable(call) == call.ret.runner = "StorcliCMDFile" \/ which(call.ret.binary) # ""

\* C19: a construction with a binary the runner's binaryCheck cannot
\* resolve raises StorCliError, whatever the singleton mode; one with a
\* binary it resolves raises nothing; no construction invokes the runner.
C19_BinaryNotFound ==
  \A t \in Threads :
    Constructed(t) =>
      /\ ~last[t].spawned
      /\ IF Resolvable(last[t]) THEN last[t].outcome.kind = "return"
         ELSE last[t].outcome = Raise([exc |-> "StorCliError"])


\* The run() that thread t completed last was served from the cache: it
\* returned the entry it found (212-214).
ServedFromCache(call) == call.cached /\ call.outcome.kind = "return"

\* C20: a run() call invokes the runner at most once: a thread that has the
\* runner's result ends the call in its next step, whatever the outcome,
\* and a completed call invoked the runner exactly when it was not served
\* from the cache.
C20_OneInvocation ==
  [][\A t \in Threads :
       /\ pc[t] = "run_exec" => pc'[t] \in {"run_exec", "idle"}
       /\ RunCompletes(t) =>
            (last'[t].spawned <=> ~ServedFromCache(last'[t]))]_vars

\* C21: with cache_enable set, every entry run() has stored is a structured
\* response whose first-controller Status is Success.
C21_OnlySuccessStored ==
  \A i \in 1..Len(objs) : \A key \in DOMAIN Cache(i) :
    LET doc == Cache(i)[key].doc
    IN  /\ response_cmd(doc).kind = "return"
        /\ "Status" \in DOMAIN response_cmd(doc).value
        /\ response_cmd(doc).value.Status = "Success"

\* A step in which thread t returns from clear_cache() on object i.
ClearReturns(t, i) ==
  /\ clear_cache(t, i) \/ (clear_cache_locked(t) /\ frame[t].inst = i)
  /\ pc'[t] = "idle"

ReportedAllowed(cmd_status, allow) ==
  IF "DetailedStatus" \in DOMAIN cmd_status
  THEN \A k \in 1..Len(cmd_status.DetailedStatus) :
         Allowed(cmd_status.DetailedStatus[k], allow)
  ELSE /\ "Description" \in DOMAIN cmd_status
       /\ get([str |-> cmd_status.Description]) # INVALID_STATUS
       /\ get([str |-> cmd_status.Description]) \in allow

\* C23: check_response_status returns True exactly when Status is not
\* Failure, False exactly when Status is Failure and every reported error
\* is allowed, and raises StorCliCmdError or StorCliCmdErrorCode otherwise,
\* for every shape of Command Status, an empty Detailed Status included.
C23_ReturnValue ==
  \A t \in Threads :
    (/\ last[t].op = "check_response_status"
     /\ response_cmd(last[t].ret.out).kind = "return") =>
      LET cmd_status == response_cmd(last[t].ret.out).value
      IN  IF cmd_status.Status # "Failure"
          THEN last[t].outcome = Return(TRUE)
          ELSE IF ReportedAllowed(cmd_status, last[t].allow)
          THEN last[t].outcome = Return(FALSE)
          ELSE /\ last[t].outcome.kind = "raise"
               /\ last[t].outcome.exc \in
                    {"StorCliCmdError", "StorCliCmdErrorCode"}

(***************************************************************************)
(* Controller.has_foreign_configurations and                               *)
(* Controller.is_foreign_configuration_healthy (controller/__init__.py     *)
(* 423-475), on an executor shared by the controllers.  A method is one    *)
(* step: one thread calls them.                                            *)
(***************************************************************************)
\* The response of '/cN/fall show' with the given Command Status and count
\* of foreign drive groups.
FallDoc(cs, groups) ==
  [Controllers |-> <<[CommandStatus |-> cs,
                      ResponseData |-> [TotalforeignDriveGroups |-> groups]]>>]

\* The controllers and what the runner gives for '/cN/fall show' on each:
\* an incomplete foreign configuration, a healthy one, and none.
ControllerNames == {"/c0", "/c1", "/c2"}

FallShow(name) ==
  [stdout |->
     [json |->
        IF name = "/c0"
        THEN FallDoc([Status |-> "Failure",
                      DetailedStatus |-> <<[ErrCd |-> 59]>>], 1)
        ELSE IF name = "/c1" THEN FallDoc([Status |-> "Success"], 1)
        ELSE FallDoc([Status |-> "Success"], 0)],
   returncode |-> 0]

\* What run() leaves in the dict cache and gives back when the runner was
\* invoked and the rest of the body gave body (220-252).
RunMiss(i, cache, key, body) ==
  [outcome |-> body.outcome,
   cache |-> IF body.store
             THEN (key :> [doc |-> body.outcome.value, by |-> i]) @@ cache
             ELSE cache,
   spawned |-> TRUE]

\* StorCLI.run as one step on the dict cache (storcli.py 206-252): the
\* outcome, the dict afterwards and whether the runner was invoked.
RunCall(i, cache, key, allow_error_codes, ret) ==
  IF objs[i].cache_enabled /\ key \in DOMAIN cache
  THEN [outcome |-> Return(cache[key].doc), cache |-> cache,
        spawned |-> FALSE]
  ELSE RunMiss(i, cache, key,
               RunBody(ret, allow_error_codes, objs[i].cache_enabled))

\* Controller._run (80-83), once for each allow list of allows in turn,
\* each run seeing the dict the one before left: the results in order.
\* The controller's name goes first in the arguments.
RECURSIVE Controller_run(_, _, _, _, _)
RECURSIVE Controller_run_next(_, _, _, _, _)
Controller_run(i, cache, name, args, allows) ==
  IF allows = << >> THEN << >>
  ELSE Controller_run_next(i, name, args, Tail(allows),
         RunCall(i, cache, cmd_cache_key(objs[i].storcli, <<name>> \o args),
                 Head(allows), FallShow(name)))

Controller_run_next(i, name, args, allows, ran) ==
  <<ran>> \o Controller_run(i, ran.cache, name, args, allows)

\* The body of has_foreign_configurations after _run (433-447), ran being
\* the outcome of _run: KeyError gives False, other errors pass.
HasForeign(ran) ==
  IF ran.kind = "raise"
  THEN IF ran.exc = "KeyError" THEN Return(FALSE) ELSE ran
  ELSE LET fc_data == response_data(ran.value)
       IN  IF fc_data.kind = "raise"
           THEN IF fc_data.exc = "KeyError" THEN Return(FALSE) ELSE fc_data
           ELSE Return("TotalforeignDriveGroups" \in DOMAIN fc_data.value
                       /\ fc_data.value.TotalforeignDriveGroups > 0)

\* The body of is_foreign_configuration_healthy after its own _run
\* (464-475).
HealthyAfterRun(ran) ==
  IF ran.kind = "raise"
  THEN IF /\ ran.exc = "StorCliCmdErrorCode"
          /\ ran.error_code = INCOMPLETE_FOREIGN_CONFIGURATION
       THEN Return(FALSE) ELSE ran
  ELSE LET fc_data == response_data(ran.value)
       IN  IF fc_data.kind = "raise" THEN fc_data ELSE Return(TRUE)

FallArgs == <<"/fall", "show">>

\* The method's result after its second _run; spawned tells whether any of
\* the two invoked the runner.
HealthySecond(has, second) ==
  [outcome |-> HealthyAfterRun(second.outcome), cache |-> second.cache,
   spawned |-> has.spawned \/ second.spawned]

\* The end of a method of the controller on executor i: the dict its runs
\* leave and the method's outcome.
ControllerReturns(t, i, name, op, done) ==
  /\ response_cache' = [response_cache EXCEPT ![CacheRef(i)] = done.cache]
  /\ last' = [last EXCEPT ![t] =
        [NoCall EXCEPT !.op = op, !.inst = i, !.key = name,
                       !.ret = [cache_enable |-> objs[i].cache_enabled],
                       !.spawned = done.spawned,
                       !.outcome = done.outcome]]
  /\ UNCHANGED <<SINGLETON_STORCLI_MODULE_ENABLE, singleton_instance, objs,
                 locks, pc, frame>>

\* has_foreign_configurations, first being its _run (433).
HasForeignCall(first) ==
  [outcome |-> HasForeign(first.outcome), cache |-> first.cache,
   spawned |-> first.spawned]

has_foreign_configurations(t, i, name) ==
  /\ pc[t] = "idle"
  /\ i \in 1..Len(objs) /\ objs[i].storcli # ""
  /\ \E runs \in {Controller_run(i, Cache(i), name, FallArgs,
                                  <<{INCOMPLETE_FOREIGN_CONFIGURATION}>>)} :
       ControllerReturns(t, i, name, "has_foreign_configurations",
                         HasForeignCall(runs[1]))

\* is_foreign_configuration_healthy from the result has of
\* has_foreign_configurations on (453-475); second is its own _run, which
\* is made only when has is True.
HealthyCall(has, second) ==
  IF has.outcome.kind = "raise" THEN has
  ELSE IF ~has.outcome.value THEN [has EXCEPT !.outcome = Return(TRUE)]
  ELSE HealthySecond(has, second)

\* The second _run has an empty allow list and sees the dict the first one
\* left.
is_foreign_configuration_healthy(t, i, name) ==
  /\ pc[t] = "idle"
  /\ i \in 1..Len(objs) /\ objs[i].storcli # ""
  /\ \E runs \in {Controller_run(i, Cache(i), name, FallArgs,
                                  <<{INCOMPLETE_FOREIGN_CONFIGURATION}, {}>>)} :
       ControllerReturns(t, i, name, "is_foreign_configuration_healthy",
                         HealthyCall(HasForeignCall(runs[1]), runs[2]))

\* One thread, one executor, its cache setting and clear_cache, and the two
\* methods on every controller in any order.
ForeignNext ==
  \/ Len(objs) = 0 /\ New(1, "storcli64", "None")
  \/ InitObject(1)
  \/ \E v \in BOOLEAN : cache_enable(1, 1, v)
  \/ clear_cache(1, 1)
  \/ \E name \in ControllerNames : has_foreign_configurations(1, 1, name)
  \/ \E name \in ControllerNames : is_foreign_configuration_healthy(1, 1, name)

ForeignSpec == Init /\ [][ForeignNext]_vars

\* What the runner reports for the controller: it has foreign
\* configurations, and '/cN/fall show' is a Failure with error code 59.
ReportsIncomplete(name) ==
  LET doc == FallShow(name).stdout.json
      cs  == response_cmd(doc).value
  IN  /\ response_data(doc).value.TotalforeignDriveGroups > 0
      /\ cs.Status = "Failure"
      /\ \E k \in 1..Len(cs.DetailedStatus) : cs.DetailedStatus[k].ErrCd = 59

\* C24: is_foreign_configuration_healthy() returns False exactly when the
\* controller has foreign configurations and '/cN/fall show' reports
\* Failure with error code 59, and True otherwise, in any order of the two
\* calls and with the cache enabled or disabled.
C24_HealthyIffNotIncomplete ==
  \A t \in Threads :
    last[t].op = "is_foreign_configuration_healthy" =>
      last[t].outcome = Return(~ReportsIncomplete(last[t].key))

(***************************************************************************)
(* pystorcli2/common.py: expand_drive_ids and count_drives (228-276).  A   *)
(* str is the sequence of its characters.                                  *)
(***************************************************************************)
\* str.split(sep) for a separator of one character.
RECURSIVE split(_, _)
split(s, sep) ==
  IF \A p \in 1..Len(s) : s[p] # sep THEN <<s>>
  ELSE LET p == CHOOSE p \in 1..Len(s) :
                  s[p] = sep /\ \A q \in 1..(p - 1) : s[q] # sep
       IN  <<SubSeq(s, 1, p - 1)>> \o split(SubSeq(s, p + 1, Len(s)), sep)

Digits == <<"0", "1", "2", "3", "4", "5", "6", "7", "8", "9">>

DigitValue(c) == (CHOOSE d \in 1..10 : Digits[d] = c) - 1

IsNumber(s) == Len(s) > 0 /\ \A p \in 1..Len(s) : \E d \in 1..10 : Digits[d] = s[p]

\* int(s) of a str of decimal digits.
RECURSIVE int(_)
int(s) ==
  IF Len(s) = 0 THEN 0
  ELSE 10 * int(SubSeq(s, 1, Len(s) - 1)) + DigitValue(s[Len(s)])

\* '{}'.format(n) of an int n >= 0.
RECURSIVE format(_)
format(n) ==
  IF n < 10 THEN <<Digits[n + 1]>>
  ELSE format(n \div 10) \o <<Digits[(n % 10) + 1]>>

\* ','.join of a sequence of strs.
RECURSIVE join_comma(_)
join_comma(parts) ==
  IF Len(parts) = 0 THEN << >>
  ELSE IF Len(parts) = 1 THEN parts[1]
  ELSE parts[1] \o <<",">> \o join_comma(Tail(parts))

\* The range as it would be without the + 1.
SlotRangeExclusive(begin, end) ==
  [k \in 1..(IF end > begin THEN end - begin ELSE 0) |-> begin + k - 1]

\* range(int(begin), int(end)+1) (253).
SlotRange(begin, end) ==
  [k \in 1..(IF end + 1 > begin THEN end + 1 - begin ELSE 0) |-> begin + k - 1]

\* The text of the slots of a range (252-253).
ExpandSlots(encl, slots) ==
  join_comma([k \in 1..Len(slots) |-> encl \o <<":">> \o format(slots[k])])

\* begin, end = slot.split('-') and the join over the range (249-253);
\* the unpacking raises ValueError unless there are two parts, and so does
\* int of a text that is no number.
ExpandRange(encl, parts) ==
  IF Len(parts) # 2 THEN Raise([exc |-> "ValueError"])
  ELSE IF ~IsNumber(strip(parts[1])) \/ ~IsNumber(strip(parts[2]))
  THEN Raise([exc |-> "ValueError"])
  ELSE Return(ExpandSlots(encl, SlotRange(int(strip(parts[1])),
                                          int(strip(parts[2])))))

\* The test  '-' in slot  (248): a single item is kept as it is.
ExpandSlot(drive, encl, slot) ==
  IF \A p \in 1..Len(slot) : slot[p] # "-" THEN Return(drive)
  ELSE ExpandRange(encl, split(slot, "-"))

\* encl, slot = drive.split(':') (242-246).
ExpandParts(drive, parts) ==
  IF Len(parts) # 2 THEN Raise([exc |-> "ValueError"])
  ELSE ExpandSlot(drive, strip(parts[1]), strip(parts[2]))

\* new_output for one stripped item (241-253).
ExpandDrive(drive) == ExpandParts(drive, split(drive, ":"))

\* The loop over drive_list from item i on (240-258).
RECURSIVE ExpandLoop(_, _, _)
RECURSIVE ExpandLoopNext(_, _, _, _)
ExpandLoop(drive_list, i, output) ==
  IF i > Len(drive_list) THEN Return(output)
  ELSE ExpandLoopNext(drive_list, i, output,
                      ExpandDrive(strip(drive_list[i])))

ExpandLoopNext(drive_list, i, output, new_output) ==
  IF new_output.kind = "raise" THEN new_output
  ELSE ExpandLoop(drive_list, i + 1,
                  IF i > 1 THEN output \o <<",">> \o new_output.value
                  ELSE output \o new_output.value)

expand_drive_ids(drives) == ExpandLoop(split(drives, ","), 1, << >>)

\* len(expanded_drives.split(',')) (275-276).
CountOf(expanded) ==
  IF expanded.kind = "raise" THEN expanded
  ELSE Return(Len(split(expanded.value, ",")))

count_drives(drives) == CountOf(expand_drive_ids(drives))

\* Drives expressions: up to MaxItems items, each a single slot or a range
\* begin-end with begin <= end, written tight, with spaces around the item,
\* or with spaces around every part.
MaxItems == 2

Enclosures == {<<"0">>, <<"1", "7">>}

SlotTexts == {<<"0">>, <<"9">>, <<"1", "1">>}

Spacings == {"tight", "around", "inside"}

DriveItems ==
  {item \in [encl : Enclosures, begin : SlotTexts,
             end : SlotTexts \cup {<<"none">>}, spacing : Spacings] :
     item.end = <<"none">> \/ int(item.begin) <= int(item.end)}

IsRange(item) == item.end # <<"none">>

\* The text of an item.
ItemText(item) ==
  LET in  == IF item.spacing = "inside" THEN <<" ">> ELSE << >>
      out == IF item.spacing = "tight" THEN << >> ELSE <<" ">>
  IN  out \o item.encl \o in \o <<":">> \o in \o item.begin
          \o (IF IsRange(item) THEN in \o <<"-">> \o in \o item.end ELSE << >>)
          \o out \o in

DriveExpressions == UNION {[1..n -> DriveItems] : n \in 1..MaxItems}

DrivesText(items) == join_comma([k \in 1..Len(items) |-> ItemText(items[k])])

call_expand_drive_ids(t, items) ==
  /\ pc[t] = "idle"
  /\ last[t] = NoCall
  /\ last' = [last EXCEPT ![t] =
        [NoCall EXCEPT !.op = "expand_drive_ids",
                       !.ret = [items |-> items],
                       !.outcome = expand_drive_ids(DrivesText(items))]]
  /\ UNCHANGED <<SINGLETON_STORCLI_MODULE_ENABLE, singleton_instance, objs,
                 response_cache, locks, pc, frame>>

call_count_drives(t, items) ==
  /\ pc[t] = "idle"
  /\ last[t] = NoCall
  /\ last' = [last EXCEPT ![t] =
        [NoCall EXCEPT !.op = "count_drives",
                       !.ret = [items |-> items],
                       !.outcome = count_drives(DrivesText(items))]]
  /\ UNCHANGED <<SINGLETON_STORCLI_MODULE_ENABLE, singleton_instance, objs,
                 response_cache, locks, pc, frame>>

\* One thread that expands or counts one drives expression.
DrivesNext ==
  \E items \in DriveExpressions :
    \/ call_expand_drive_ids(1, items)
    \/ call_count_drives(1, items)

DrivesSpec == Init /\ [][DrivesNext]_vars

\* The drives of an item, in order: the item itself without the spaces
\* around it, or enclosure:slot for every slot of the range.
DrivesOfItem(item) ==
  IF IsRange(item)
  THEN [k \in 1..(int(item.end) - int(item.begin) + 1) |->
          item.encl \o <<":">> \o format(int(item.begin) + k - 1)]
  ELSE <<strip(ItemText(item))>>

RECURSIVE DrivesOf(_)
DrivesOf(items) ==
  IF Len(items) = 0 THEN << >>
  ELSE DrivesOfItem(Head(items)) \o DrivesOf(Tail(items))

\* C25: expand_drive_ids returns the dash-free list in which every range
\* e:a-b is replaced by e:a, ..., e:b in order and single items are kept,
\* it gives its own output back unchanged, and count_drives returns the
\* number of drives of that list.
C25_ExpandAndCount ==
  \A t \in Threads :
    /\ last[t].op = "expand_drive_ids" =>
         /\ last[t].outcome = Return(join_comma(DrivesOf(last[t].ret.items)))
         /\ \A p \in 1..Len(last[t].outcome.value) :
              last[t].outcome.value[p] # "-"
         /\ expand_drive_ids(last[t].outcome.value) = last[t].outcome
    /\ last[t].op = "count_drives" =>
         last[t].outcome = Return(Len(DrivesOf(last[t].ret.items)))

\* An expression with a range over several slots that crosses from one
\* digit to two, written with spaces inside, after a single item.
C25_Witness ==
  \E t \in Threads :
    /\ last[t].op = "expand_drive_ids"
    /\ Len(last[t].ret.items) = 2
    /\ ~IsRange(last[t].ret.items[1])
    /\ last[t].ret.items[2] =
         [encl |-> <<"1", "7">>, begin |-> <<"9">>, end |-> <<"1", "1">>,
          spacing |-> "inside"]
    /\ last[t].outcome.kind = "return"

\* Two threads that run commands on one executor whose cache is enabled
\* before the first run; the runner succeeds with one of two responses.
RaceNext ==
  \/ Len(objs) = 0 /\ New(1, "storcli64", "None")
  \/ InitObject(1)
  \/ cache_enable(1, 1, TRUE)
  \/ \E t \in Threads :
       \/ /\ Len(objs) > 0 /\ objs[1].cache_enabled
          /\ \E a \in ArgVectors : run(t, 1, a, {})
       \/ run_hit(t)
       \/ run_lock(t)
       \/ run_wait(t)
       \/ \E d \in {"d1", "d2"} :
            run_exec(t, [stdout |-> [json |-> SuccessDoc(d)], returncode |-> 0])

RaceSpec == Init /\ [][RaceNext]_vars

\* Both threads completed a run() of the same command, each having
\* invoked the runner.
BothInvoked(t, u) ==
  /\ t # u
  /\ Ran(t) /\ Ran(u)
  /\ last[t].inst = last[u].inst
  /\ last[t].key = last[u].key

\* C26: of two threads in run() on one executor with the cache enabled, at
\* most one at a time is in the locked section, so their runner
\* invocations never overlap; a call that invoked the runner returns; and
\* when both invoked it for one command the cache has the one entry of that
\* key, which is a response one of them returned.
C26_BothMiss ==
  /\ \A t \in Threads, u \in Threads :
       (t # u /\ pc[t] = "run_exec" /\ pc[u] = "run_exec") =>
         frame[t].inst # frame[u].inst
  /\ \A t \in Threads : Ran(t) => last[t].outcome.kind = "return"
  /\ \A t \in Threads, u \in Threads :
       BothInvoked(t, u) =>
         /\ last[t].key \in DOMAIN Cache(last[t].inst)
         /\ Cache(last[t].inst)[last[t].key].doc \in
              {last[t].outcome.value, last[u].outcome.value}

\* Both threads missed the cache for the same command: one is in the
\* locked section, the other waits for the lock, nothing is stored yet.
C26_Witness ==
  \E t \in Threads, u \in Threads :
    /\ pc[t] = "run_exec" /\ pc[u] = "run_wait"
    /\ frame[t].inst = frame[u].inst /\ frame[t].key = frame[u].key
    /\ objs[frame[t].inst].cache_enabled
    /\ frame[t].key \notin DOMAIN Cache(frame[t].inst)

\* C27: a run() that stores its response in an executor's cache was not in
\* its runner invocation when a clear_cache() returned on that executor:
\* no response from an invocation that started before a clear is in the
\* cache after it.
C27_NoStaleStore ==
  [][\A u \in Threads :
       (/\ pc[u] = "run_exec" /\ pc'[u] = "idle"
        /\ frame[u].key \in DOMAIN response_cache'[CacheRef(frame[u].inst)]
        /\ response_cache' # response_cache) =>
         ~\E t \in Threads :
            /\ last[t].op = "clear_cache"
            /\ last[t].inst = frame[u].inst
            /\ u \in last[t].ret.inflight]_vars

\* C28: a run() with the cache enabled that races with clear_cache() or a
\* cache setter returns a cached response or goes on to the runner; it
\* never ends with the KeyError of an entry that went away between the
\* presence test and the read.
C28_NoVanishedEntry ==
  \A t \in Threads :
    last[t].op = "run" =>
      /\ last[t].cached => last[t].outcome.kind = "return"
      /\ last[t].outcome # Raise([exc |-> "KeyError", key |-> last[t].key])

(***************************************************************************)
(* The cache key of run() (storcli.py 206-214) with a runner whose         *)
(* response tells the arguments it was given.                              *)
(***************************************************************************)
\* Argument vectors of run(), among them the one Controller._run makes of
\* ['/fall', 'show'] on controller 0.
KeyArgVectors ==
  ArgVectors \cup {<<"/c0", "/fall", "show">>, <<"/c0", "show", "all">>}

\* The command line a runner is given, the arguments after the binary
\* separated by spaces.
RECURSIVE CommandLine(_)
CommandLine(args) ==
  IF Len(args) = 0 THEN ""
  ELSE IF Len(args) = 1 THEN args[1]
  ELSE args[1] \o " " \o CommandLine(Tail(args))

\* A runner that succeeds with a response naming its arguments.
EchoRunner(args) ==
  [stdout |-> [json |-> SuccessDoc(CommandLine(args))], returncode |-> 0]

\* run(args) in one step, one thread calling.
run_call(t, i, args) ==
  /\ pc[t] = "idle"
  /\ i \in 1..Len(objs) /\ objs[i].storcli # ""
  /\ \E ran \in {RunCall(i, Cache(i), cmd_cache_key(objs[i].storcli, args),
                         {}, EchoRunner(args))} :
       /\ response_cache' = [response_cache EXCEPT ![CacheRef(i)] = ran.cache]
       /\ last' = [last EXCEPT ![t] =
             [NoCall EXCEPT !.op = "run", !.inst = i,
                            !.key = cmd_cache_key(objs[i].storcli, args),
                            !.cached = ~ran.spawned,
                            !.spawned = ran.spawned,
                            !.ret = [args |-> args],
                            !.outcome = ran.outcome]]
  /\ UNCHANGED <<SINGLETON_STORCLI_MODULE_ENABLE, singleton_instance, objs,
                 locks, pc, frame>>

\* One thread, one executor, its cache setting and clear_cache, and run()
\* with every argument vector.
KeyNext ==
  \/ Len(objs) = 0 /\ New(1, "storcli64", "None")
  \/ InitObject(1)
  \/ \E v \in BOOLEAN : cache_enable(1, 1, v)
  \/ clear_cache(1, 1)
  \/ \E args \in KeyArgVectors : run_call(1, 1, args)

KeySpec == Init /\ [][KeyNext]_vars

\* C29: with the cache enabled, run(args) is served only a response that
\* was stored for args: for one binary, different argument vectors have
\* different cache keys.
C29_KeyPerArguments ==
  \A t \in Threads :
    (last[t].op = "run" /\ "args" \in DOMAIN last[t].ret
     /\ last[t].cached) =>
      last[t].outcome = Return(EchoRunner(last[t].ret.args).stdout.json)

\* Two threads on one executor that call run(), clear_cache() and the two
\* setters, while the first also constructs and switches the singleton
\* mode; the runner succeeds or raises.
LockRunnerResults ==
  {[stdout |-> [json |-> SuccessDoc("d1")], returncode |-> 0],
   [raises |-> "PermissionError"]}

LockNext ==
  \/ enable_singleton(1)
  \/ disable_singleton(1)
  \/ /\ \/ Len(objs) = 0
        \/ SINGLETON_STORCLI_MODULE_ENABLE /\ singleton_instance # 0
     /\ New(1, "storcli64", "None")
  \/ InitObject(1)
  \/ \E t \in Threads :
       \/ cache_enable(t, 1, TRUE)
       \/ cache_enable_locked(t)
       \/ clear_cache(t, 1)
       \/ clear_cache_locked(t)
       \/ cache_set(t, 1, "seeded")
       \/ cache_set_locked(t)
       \/ run(t, 1, <<"/c0", "show">>, {})
       \/ run_hit(t)
       \/ run_lock(t)
       \/ run_wait(t)
       \/ \E ret \in LockRunnerResults : run_exec(t, ret)

LockSpec == Init /\ [][LockNext]_vars

\* The steps of thread t that need no lock to be free, and those that wait
\* for one.
Goes(t) ==
  \/ InitObject(t)
  \/ run_hit(t)
  \/ run_lock(t)
  \/ \E ret \in LockRunnerResults : run_exec(t, ret)

Gets(t) ==
  \/ run_wait(t)
  \/ clear_cache_locked(t)
  \/ cache_enable_locked(t)
  \/ cache_set_locked(t)

\* The same, where a thread that can go on does so (the runner ends), and a
\* thread waiting for a lock gets it if the lock is free again and again.
LockFairSpec ==
  LockSpec /\ \A t \in Threads : WF_vars(Goes(t)) /\ SF_vars(Gets(t))

\* A lock is held by a thread exactly while that thread is in the locked
\* section it entered with this lock.
HeldInside ==
  \A l \in LockIds :
    locks[l] # 0 => pc[locks[l]] = "run_exec" /\ frame[locks[l]].lock = l

=============================================================================
